---- MODULE Spec2Model ----
(***************************************************************************)
(* A model of the dbt MCP Hackathon Project backend: the manifest reader   *)
(* (backend/model_service.py), the prompt processor                        *)
(* (backend/prompt_processor.py), the pattern-based SQL synthesizer        *)
(* (backend/ai_service.py) and the shallow validators (ai_service.py,      *)
(* backend/model_generator.py).                                            *)
(*                                                                         *)
(* Text is modelled by TLA+ strings, character by character: SubSeq, Len   *)
(* and \o act on strings as they act on sequences.  Python's re module is  *)
(* modelled by a small matcher over regex syntax trees (Ends/Search).      *)
(***************************************************************************)
EXTENDS Integers, Sequences, FiniteSets, TLC

VARIABLES
  disk,        \* target/manifest.json as it is on disk
  manifest,    \* ModelMetadataService.manifest, the in-memory snapshot
  loadedFrom,  \* history: the disk as the last _load_manifest call found it
  reloaded,    \* history: the last reload_manifest return ("never" before one)
  nreloads,    \* history: reload_manifest calls since the disk last changed
  reply,       \* the result of the last query or handler body
  prompt,      \* the user prompt handed to PromptProcessor.analyze_prompt
  nparts,      \* number of fragments the prompt was composed of
  analysis,    \* result of the last analyze_prompt call, or None
  ppc,         \* "compose" while the prompt is typed, "done" after analysis
  request,     \* the PromptAnalysis handed to the synthesizer
  generated,   \* the SQLGenerationResult of the last synthesis, or None
  validation,  \* the last validation result of each call site, or None
  draft,       \* SQL text being written, to be validated
  nlines,      \* number of lines the draft was composed of
  lpc,         \* position of the thread inside _load_manifest
  rpc,         \* position of the thread inside a reader of self.manifest
  rcall,       \* the reader call in progress, or None
  before,      \* the manifest held when the reload began
  stderr,      \* what the dbt process wrote to its standard error
  nerr,        \* number of lines written to stderr
  dbtResult,   \* the last CompilationResult or ExecutionResult, or None
  files,       \* the model files under models/, as a set of paths
  schemas,     \* for each layer directory its schema.yml: whether it exists, its models list
  lastWritten, \* history: for each model name the result last written for it, or None
  fileResult,  \* what the last create or delete call returned, or None
  contents,    \* for each model file its text
  services,    \* MCPServer: which of its services __init__ has constructed
  posted,      \* the body of the last generation request, as the client sent it
  response,    \* the HTTP response to the last request, or None
  inCall,      \* the compile-and-run or validate-and-run call in progress, or None
  dbtLog,      \* history: the dbt processes the call started, and how each ended
  combined     \* the pair the call returned, or None

svars == <<disk, manifest, loadedFrom, reloaded, nreloads, reply>>

pvars == <<prompt, nparts, analysis, ppc>>

yvars == <<request, generated, validation, draft, nlines>>

cvars == <<lpc, rpc, rcall, before>>

dvars == <<stderr, nerr, dbtResult>>

fvars == <<files, schemas, lastWritten, fileResult, contents>>

hvars == <<services, posted, response>>

rvars == <<inCall, dbtLog, combined>>

\* what the actions of the first specifications leave alone
ovars == <<cvars, dvars, fvars, hvars, rvars>>

vars ==
  <<disk, manifest, loadedFrom, reloaded, nreloads, reply, prompt, nparts, analysis, ppc,
    request, generated, validation, draft, nlines, lpc, rpc, rcall, before,
    stderr, nerr, dbtResult, files, schemas, lastWritten, fileResult, contents,
    services, posted, response, inCall, dbtLog, combined>>

\* Python's None, where a record (a dict, a dataclass) may stand instead
None == [none |-> TRUE]

-----------------------------------------------------------------------------
(* Strings *)

Char(s, i) == SubSeq(s, i, i)

UpperAlpha == "ABCDEFGHIJKLMNOPQRSTUVWXYZ"
LowerAlpha == "abcdefghijklmnopqrstuvwxyz"
Digits == "0123456789"

CharsOf(s) == {Char(s, i) : i \in 1..Len(s)}

UpperChars == CharsOf(UpperAlpha)

\* the character ` (the lexer pairs a backquote with the next apostrophe)
Backtick == SubSeq("`'", 1, 1)

\* str.lower() on one character (ASCII)
LowerChar(c) ==
  IF c \in UpperChars
    THEN Char(LowerAlpha, CHOOSE k \in 1..Len(UpperAlpha) : Char(UpperAlpha, k) = c)
    ELSE c

\* s[i..j] lower-cased, by halves
RECURSIVE LowerFrom(_, _, _)
LowerFrom(s, i, j) ==
  IF i > j THEN ""
  ELSE IF i = j THEN LowerChar(Char(s, i))
  ELSE LowerFrom(s, i, (i + j) \div 2) \o LowerFrom(s, (i + j) \div 2 + 1, j)

\* str.lower()
Lower(s) == LowerFrom(s, 1, Len(s))

\* Python's `sub in s`
Contains(s, sub) ==
  \E i \in 1..(Len(s) - Len(sub) + 1) : SubSeq(s, i, i + Len(sub) - 1) = sub

\* str.count(sub) for a sub that cannot overlap itself
CountOf(s, sub) ==
  Cardinality({i \in 1..(Len(s) - Len(sub) + 1) : SubSeq(s, i, i + Len(sub) - 1) = sub})

StartsWith(s, pre) == Len(pre) <= Len(s) /\ SubSeq(s, 1, Len(pre)) = pre

EndsWith(s, suf) ==
  Len(suf) <= Len(s) /\ SubSeq(s, Len(s) - Len(suf) + 1, Len(s)) = suf

\* "\n".join(parts)
RECURSIVE JoinFrom(_, _, _)
JoinFrom(parts, sep, i) ==
  IF i > Len(parts) THEN ""
  ELSE IF i = Len(parts) THEN parts[i]
  ELSE parts[i] \o sep \o JoinFrom(parts, sep, i + 1)

Join(parts, sep) == JoinFrom(parts, sep, 1)

\* s.split("\n")
RECURSIVE SplitLinesFrom(_, _)
SplitLinesFrom(s, start) ==
  LET breaks == {i \in start..Len(s) : Char(s, i) = "\n"}
      first == CHOOSE i \in breaks : \A j \in breaks : i <= j
  IN IF breaks = {} THEN <<SubSeq(s, start, Len(s))>>
     ELSE <<SubSeq(s, start, first - 1)>> \o SplitLinesFrom(s, first + 1)

SplitLines(s) == SplitLinesFrom(s, 1)

Blank == {" ", "\n", "\t"}

\* s.strip()
Strip(s) ==
  LET solid == {i \in 1..Len(s) : Char(s, i) \notin Blank}
  IN IF solid = {} THEN ""
     ELSE SubSeq(s, CHOOSE i \in solid : \A j \in solid : i <= j,
                    CHOOSE i \in solid : \A j \in solid : j <= i)

-----------------------------------------------------------------------------
(* Python re: character classes *)

SpaceChars == {" ", "\n", "\t"}
IdentStartChars == UpperChars \cup CharsOf(LowerAlpha) \cup {"_"}
WordChars == IdentStartChars \cup CharsOf(Digits)

(* Regex syntax trees *)
Lit(w) == [k |-> "lit", w |-> w]
WS == [k |-> "ws"]                      \* \s+
WordPlus == [k |-> "wordplus"]          \* \w+
DotStar == [k |-> "dotstar"]            \* .*
Cat(rs) == [k |-> "cat", rs |-> rs]
Alt(rs) == [k |-> "alt", rs |-> rs]
Opt(r) == [k |-> "opt", r |-> r]        \* (?:r)?
NotAhead(r) == [k |-> "notahead", r |-> r]  \* (?!r)
Ident == [k |-> "ident"]                \* [a-zA-Z_][a-zA-Z0-9_]*
Clause == [k |-> "clause"]              \* [^,\n]+

\* (?:w1|w2|...) over literal words
Words(ws) == Alt([n \in 1..Len(ws) |-> Lit(ws[n])])

\* Ends(re, s, i): the positions just after a match of re that starts at i
RECURSIVE Ends(_, _, _), EndsCat(_, _, _, _)
Ends(re, s, i) ==
  CASE re.k = "lit" ->
         IF i + Len(re.w) - 1 <= Len(s) /\ SubSeq(s, i, i + Len(re.w) - 1) = re.w
           THEN {i + Len(re.w)} ELSE {}
    [] re.k = "ws" ->
         {j \in (i + 1)..(Len(s) + 1) : \A p \in i..(j - 1) : Char(s, p) \in SpaceChars}
    [] re.k = "wordplus" ->
         {j \in (i + 1)..(Len(s) + 1) : \A p \in i..(j - 1) : Char(s, p) \in WordChars}
    [] re.k = "dotstar" ->
         {j \in i..(Len(s) + 1) : \A p \in i..(j - 1) : Char(s, p) # "\n"}
    [] re.k = "ident" ->
         {j \in (i + 1)..(Len(s) + 1) :
            /\ Char(s, i) \in IdentStartChars
            /\ \A p \in (i + 1)..(j - 1) : Char(s, p) \in WordChars}
    [] re.k = "clause" ->
         {j \in (i + 1)..(Len(s) + 1) : \A p \in i..(j - 1) : Char(s, p) \notin {",", "\n"}}
    [] re.k = "cat" -> EndsCat(re.rs, 1, s, {i})
    [] re.k = "alt" -> UNION {Ends(re.rs[n], s, i) : n \in 1..Len(re.rs)}
    [] re.k = "opt" -> {i} \cup Ends(re.r, s, i)
    [] re.k = "notahead" -> IF Ends(re.r, s, i) = {} THEN {i} ELSE {}

EndsCat(rs, n, s, starts) ==
  IF n > Len(rs) \/ starts = {} THEN starts
  ELSE EndsCat(rs, n + 1, s, UNION {Ends(rs[n], s, p) : p \in starts})

\* re.search(pattern, s) is not None
Search(re, s) == \E i \in 1..(Len(s) + 1) : Ends(re, s, i) # {}

\* re.search(pattern, s, re.IGNORECASE) for a pattern written in lower case
SearchI(re, s) == Search(re, Lower(s))

-----------------------------------------------------------------------------
(* backend/model_service.py: ModelMetadataService queries over a manifest. *)
(* A manifest is None or [nodes |-> <<node, ...>>]: the "nodes" dict in its *)
(* insertion order, each node [id, name, resource_type, path, materialized,*)
(* deps] with deps the list depends_on.nodes of node ids.                  *)

Node(id, name, rtype, path, mat, deps) ==
  [id |-> id, name |-> name, resource_type |-> rtype, path |-> path,
   materialized |-> mat, deps |-> deps, description |-> "", tags |-> <<>>]

\* the same node with a description and tags
Described(node, description, tags) ==
  [node EXCEPT !.description = description, !.tags = tags]

SeqRange(q) == {q[i] : i \in 1..Len(q)}

\* [x for x in q if P(x)], order kept
RECURSIVE FilterSeq(_, _, _)
FilterSeq(q, P(_), i) ==
  IF i > Len(q) THEN <<>>
  ELSE IF P(q[i]) THEN <<q[i]>> \o FilterSeq(q, P, i + 1)
  ELSE FilterSeq(q, P, i + 1)

\* first index whose element satisfies P, or 0
FirstIndex(q, P(_)) ==
  IF \E i \in 1..Len(q) : P(q[i])
    THEN CHOOSE i \in 1..Len(q) : P(q[i]) /\ \A j \in 1..(i - 1) : ~P(q[j])
    ELSE 0

NodeById(nodes, id) == nodes[FirstIndex(nodes, LAMBDA n : n.id = id)]

HasNode(nodes, id) == \E i \in 1..Len(nodes) : nodes[i].id = id

IsModelNode(n) == n.resource_type = "model"

\* an upstream scan that does not look at the resource type of a dependency
UpstreamNames_AnyResource(nodes, node) ==
  LET present == FilterSeq(node.deps, LAMBDA d : HasNode(nodes, d), 1)
  IN [i \in 1..Len(present) |-> NodeById(nodes, present[i]).name]

\* names of the model nodes among the ids of depends_on.nodes, in list order
UpstreamNames(nodes, node) ==
  LET present == FilterSeq(node.deps,
                   LAMBDA d : HasNode(nodes, d) /\ IsModelNode(NodeById(nodes, d)), 1)
  IN [i \in 1..Len(present) |-> NodeById(nodes, present[i]).name]

\* names of the other model nodes whose depends_on.nodes holds this node's id
DownstreamNames(nodes, node) ==
  LET users == FilterSeq(nodes,
                 LAMBDA n : IsModelNode(n) /\ n.id # node.id /\ node.id \in SeqRange(n.deps), 1)
  IN [i \in 1..Len(users) |-> users[i].name]

_extract_model_metadata(node, nodes) ==
  [name |-> node.name, path |-> node.path, description |-> node.description,
   materialization |-> node.materialized, tags |-> node.tags,
   depends_on |-> UpstreamNames(nodes, node),
   referenced_by |-> DownstreamNames(nodes, node)]

get_all_models(m) ==
  IF m = None THEN <<>>
  ELSE LET models == FilterSeq(m.nodes, IsModelNode, 1)
       IN [i \in 1..Len(models) |-> _extract_model_metadata(models[i], m.nodes)]

get_model_by_name(m, model_name) ==
  IF m = None THEN None
  ELSE LET i == FirstIndex(m.nodes, LAMBDA n : IsModelNode(n) /\ n.name = model_name)
       IN IF i = 0 THEN None ELSE _extract_model_metadata(m.nodes[i], m.nodes)

NoDependencies == [upstream |-> <<>>, downstream |-> <<>>]

get_model_dependencies(m, model_name) ==
  IF m = None THEN NoDependencies
  ELSE LET i == FirstIndex(m.nodes, LAMBDA n : IsModelNode(n) /\ n.name = model_name)
       IN IF i = 0 THEN NoDependencies
          ELSE [upstream |-> UpstreamNames(m.nodes, m.nodes[i]),
                downstream |-> DownstreamNames(m.nodes, m.nodes[i])]

\* the text search of search_models; an absent description is the empty string
QueryMatches_AlsoPath(model, query) ==
  LET query_lower == Lower(query)
  IN \/ Contains(Lower(model.name), query_lower)
     \/ (model.description # "" /\ Contains(Lower(model.description), query_lower))
     \/ \E i \in 1..Len(model.tags) : Contains(Lower(model.tags[i]), query_lower)
     \/ (model.path # "" /\ Contains(Lower(model.path), query_lower))

QueryMatches(model, query) ==
  LET query_lower == Lower(query)
  IN \/ Contains(Lower(model.name), query_lower)
     \/ (model.description # "" /\ Contains(Lower(model.description), query_lower))
     \/ \E i \in 1..Len(model.tags) : Contains(Lower(model.tags[i]), query_lower)

layer_patterns ==
  [staging |-> <<"staging", "stg_">>,
   intermediate |-> <<"intermediate", "int_">>,
   marts |-> <<"marts", "mart_", "dim_", "fct_">>,
   raw |-> <<"raw", "source">>]

\* a layer test that looks for the layer's own name only
_model_matches_layer_DirectOnly(model, layer) ==
  IF model.path = "" THEN FALSE
  ELSE Contains(Lower(model.path), Lower(layer))

\* an absent path is the empty string
_model_matches_layer(model, layer) ==
  IF model.path = "" THEN FALSE
  ELSE LET path_lower == Lower(model.path)
           layer_lower == Lower(layer)
       IN IF layer_lower \in DOMAIN layer_patterns
            THEN \E i \in 1..Len(layer_patterns[layer_lower]) :
                   Contains(path_lower, layer_patterns[layer_lower][i])
            ELSE Contains(path_lower, layer_lower)

\* filters as the callers build them: a key is present only with a non-empty
\* value, so "" and <<>> stand for an absent key and None for no filters
Filters(materialization, tags, layer) ==
  [materialization |-> materialization, tags |-> tags, layer |-> layer]

PassesFilters(model, filters) ==
  /\ filters.materialization = "" \/ model.materialization = filters.materialization
  /\ filters.tags = <<>> \/ \E i \in 1..Len(filters.tags) : filters.tags[i] \in SeqRange(model.tags)
  /\ filters.layer = "" \/ _model_matches_layer(model, filters.layer)

search_models(m, query, filters) ==
  LET all_models == get_all_models(m)
  IN IF query = "" /\ filters = None THEN all_models
     ELSE FilterSeq(all_models,
            LAMBDA model : /\ query = "" \/ QueryMatches(model, query)
                           /\ filters = None \/ PassesFilters(model, filters), 1)


(* The manifest file: missing, not JSON ("invalid"), JSON that is not an   *)
(* object ("nondict"), or a manifest object ("ok").                        *)

Missing == [kind |-> "missing", content |-> None]
Invalid == [kind |-> "invalid", content |-> None]
NonDict == [kind |-> "nondict", content |-> None]
Loadable(m) == [kind |-> "ok", content |-> m]

\* the file a manifest value was read from
OnDisk(m) == IF m = None THEN Missing ELSE Loadable(m)

\* a loader that appends the nodes it reads to the nodes it holds
_load_manifest_Accumulate(d, held) ==
  CASE d.kind = "missing" -> held
    [] d.kind = "invalid" -> None
    [] d.kind = "nondict" -> None
    [] d.kind = "ok" ->
         IF held = None THEN d.content
         ELSE [nodes |-> held.nodes \o d.content.nodes]

\* _load_manifest: the value of self.manifest after the call, given the file and
\* the value held before.  A missing file returns before any assignment; a
\* json.load failure, or the .get of a non-dict value, lands in the except branch.
_load_manifest(d, held) ==
  CASE d.kind = "missing" -> held
    [] d.kind = "invalid" -> None
    [] d.kind = "nondict" -> None
    [] d.kind = "ok" -> d.content

\* what reload_manifest returns once _load_manifest has run
ReloadReturn(m) == IF m # None THEN "True" ELSE "False"

-----------------------------------------------------------------------------
(* backend/prompt_processor.py: intent recognition *)

CREATE_MODEL == "create_model"
JOIN_TABLES == "join_tables"
AGGREGATE_DATA == "aggregate_data"
FILTER_DATA == "filter_data"
TRANSFORM_DATA == "transform_data"
EXPLORE_DATA == "explore_data"
UNKNOWN == "unknown"

IntentType ==
  {CREATE_MODEL, JOIN_TABLES, AGGREGATE_DATA, FILTER_DATA, TRANSFORM_DATA,
   EXPLORE_DATA, UNKNOWN}

OptA == Opt(Cat(<<Lit("a"), WS>>))        \* (?:a\s+)?
OptNew == Opt(Cat(<<Lit("new"), WS>>))    \* (?:new\s+)?
OptThe == Opt(Cat(<<Lit("the"), WS>>))    \* (?:the\s+)?

\* the keys of intent_patterns in insertion order
IntentOrder ==
  <<CREATE_MODEL, JOIN_TABLES, AGGREGATE_DATA, FILTER_DATA, TRANSFORM_DATA>>

intent_patterns ==
  [t \in SeqRange(IntentOrder) |->
    CASE t = CREATE_MODEL -> <<
           Cat(<<Lit("create"), WS, OptA, OptNew, Lit("model")>>),
           Cat(<<Lit("build"), WS, OptA, OptNew, Lit("model")>>),
           Cat(<<Lit("generate"), WS, OptA, OptNew, Lit("model")>>),
           Cat(<<Lit("make"), WS, OptA, OptNew, Lit("model")>>),
           Cat(<<Lit("i"), WS, Words(<<"want", "need">>), WS, OptA, OptNew, Lit("model")>>) >>
      [] t = JOIN_TABLES -> <<
           Cat(<<Lit("join"), WS, WordPlus, WS, Words(<<"with", "and", "to">>), WS, WordPlus>>),
           Cat(<<Lit("combine"), WS, WordPlus, WS, Words(<<"with", "and">>), WS, WordPlus>>),
           Cat(<<Lit("merge"), WS, WordPlus, WS, Words(<<"with", "and">>), WS, WordPlus>>),
           Cat(<<Words(<<"inner", "left", "right", "full">>), WS, Lit("join")>>),
           Cat(<<Lit("connect"), WS, WordPlus, WS, Words(<<"with", "and", "to">>), WS, WordPlus>>) >>
      [] t = AGGREGATE_DATA -> <<
           Alt(<<Lit("sum"), Lit("count"), Lit("avg"), Lit("average"), Lit("min"),
                 Lit("max"), Cat(<<Lit("group"), WS, Lit("by")>>)>>),
           Cat(<<Lit("aggregate"), WS>>),
           Cat(<<Lit("total"), WS>>),
           Cat(<<Lit("calculate"), WS, OptThe, Words(<<"sum", "count", "average", "total">>)>>),
           Cat(<<Lit("group"), WS, DotStar, WS, Lit("by")>>) >>
      [] t = FILTER_DATA -> <<
           Cat(<<Lit("filter"), WS>>),
           Cat(<<Lit("where"), WS>>),
           Cat(<<Lit("only"), WS, Words(<<"show", "include", "get">>)>>),
           Cat(<<Lit("exclude"), WS>>),
           Cat(<<Words(<<"greater", "less">>), WS, Lit("than")>>),
           Cat(<<Lit("between"), WS, DotStar, WS, Lit("and")>>) >>
      [] t = TRANSFORM_DATA -> <<
           Cat(<<Lit("transform"), WS>>),
           Cat(<<Lit("convert"), WS>>),
           Cat(<<Lit("calculate"), WS>>),
           Cat(<<Lit("derive"), WS>>),
           Cat(<<Lit("add"), WS, OptA, OptNew, Lit("column")>>),
           Cat(<<Lit("create"), WS, OptA, OptNew, Lit("field")>>) >>]

\* number of the intent's patterns that re.search finds in the prompt
MatchCount(t, p) ==
  Cardinality({n \in 1..Len(intent_patterns[t]) : SearchI(intent_patterns[t][n], p)})

\* a score is the quotient num / den of two small naturals; Python compares the
\* correctly rounded doubles, which are ordered as the quotients are
ScoreGT(a, b) == a.num * b.den > b.num * a.den
ScoreEQ(a, b) == a.num * b.den = b.num * a.den

\* a scorer that forgets to divide by the number of patterns
Normalize_RawCount(matches, npatterns) == [num |-> matches, den |-> 1]

\* score / len(patterns)
Normalize(matches, npatterns) == [num |-> matches, den |-> npatterns]

\* intent_scores: the (intent, score) items in insertion order
IntentScores(p) ==
  LET hit == FilterSeq(IntentOrder, LAMBDA t : MatchCount(t, p) > 0, 1)
  IN [i \in 1..Len(hit) |->
       [intent |-> hit[i],
        score |-> Normalize(MatchCount(hit[i], p), Len(intent_patterns[hit[i]]))]]

\* a max that lets a later item of equal key replace an earlier one
RECURSIVE MaxByScore_LastWins(_, _, _)
MaxByScore_LastWins(items, i, best) ==
  IF i > Len(items) THEN best
  ELSE IF ~ScoreGT(best.score, items[i].score) THEN MaxByScore_LastWins(items, i + 1, items[i])
  ELSE MaxByScore_LastWins(items, i + 1, best)

\* max(items, key=...): the first item whose key no other item exceeds
RECURSIVE MaxByScore(_, _, _)
MaxByScore(items, i, best) ==
  IF i > Len(items) THEN best
  ELSE IF ScoreGT(items[i].score, best.score) THEN MaxByScore(items, i + 1, items[i])
  ELSE MaxByScore(items, i + 1, best)

_detect_intent(p) ==
  LET items == IntentScores(p)
  IN IF items = <<>> THEN [intent |-> UNKNOWN, score |-> [num |-> 0, den |-> 1]]
     ELSE MaxByScore(items, 2, items[1])


-----------------------------------------------------------------------------
(* backend/prompt_processor.py: table references *)

\* a table pattern is  pre ([a-zA-Z_][a-zA-Z0-9_]*) post  with one capture group
TablePattern(pre, post) == [pre |-> pre, post |-> post]

Empty == Cat(<<>>)

table_patterns == <<
  TablePattern(Cat(<<Words(<<"from", "join", "with", "and", "table", "model">>), WS>>), Empty),
  TablePattern(Empty, Cat(<<WS, Words(<<"table", "model">>)>>)),
  TablePattern(Lit(Backtick), Lit(Backtick)),
  TablePattern(Lit("'"), Lit("'")),
  TablePattern(Lit("\""), Lit("\"")) >>

\* [a-zA-Z_][a-zA-Z0-9_]* starting at p: the positions just after it
IdentEnds(s, p) ==
  {e \in (p + 1)..(Len(s) + 1) :
     /\ Char(s, p) \in IdentStartChars
     /\ \A q \in (p + 1)..(e - 1) : Char(s, q) \in WordChars}

Max(S) == CHOOSE x \in S : \A y \in S : y <= x
Min(S) == CHOOSE x \in S : \A y \in S : x <= y

\* the matches of a table pattern that start at i: <<group start, group end, end>>
MatchesAt(tp, s, i) ==
  UNION {UNION {{<<p, e, z>> : z \in Ends(tp.post, s, e)} : e \in IdentEnds(s, p)} :
           p \in Ends(tp.pre, s, i)}

\* the match the backtracking matcher returns at i: every quantifier is greedy
GreedyMatchAt(tp, s, i) ==
  LET ms == MatchesAt(tp, s, i)
      p == Max({t[1] : t \in ms})
      e == Max({t[2] : t \in {u \in ms : u[1] = p}})
      z == Max({t[3] : t \in {u \in ms : u[1] = p /\ u[2] = e}})
  IN <<p, e, z>>

\* [m.group(1) for m in re.finditer(pattern, s, re.IGNORECASE)]: leftmost
\* matches, not overlapping; sl is s lower-cased, the group keeps s's case
RECURSIVE FindIter(_, _, _, _)
FindIter(tp, s, sl, pos) ==
  LET starts == {i \in pos..(Len(s) + 1) : MatchesAt(tp, sl, i) # {}}
  IN IF starts = {} THEN <<>>
     ELSE LET g == GreedyMatchAt(tp, sl, Min(starts))
          IN <<SubSeq(s, g[1], g[2] - 1)>> \o FindIter(tp, s, sl, g[3])

\* the groups of all table patterns, pattern by pattern
RECURSIVE CapturedNames(_, _)
CapturedNames(s, n) ==
  IF n > Len(table_patterns) THEN <<>>
  ELSE FindIter(table_patterns[n], s, Lower(s), 1) \o CapturedNames(s, n + 1)

TableReference(name, is_model, confidence) ==
  [name |-> name, is_model |-> is_model, confidence |-> confidence]

\* a key that keeps the case of the name
FoundKey_CaseSensitive(name) == name

\* the key under which a name is remembered in found_names
FoundKey(name) == Lower(name)

_is_existing_model(m, table_name) == get_model_by_name(m, table_name) # None

\* confidences are kept in tenths: 6 is 0.6, 8 is 0.8, 9 is 0.9
RegexConfidence(is_model) == IF is_model THEN 8 ELSE 6

\* one pass of the inner loop over the regex matches
RegexRefStep(acc, table_name, m) ==
  IF table_name # "" /\ FoundKey(table_name) \notin acc.found
    THEN [found |-> acc.found \cup {FoundKey(table_name)},
          refs |-> Append(acc.refs,
                     TableReference(table_name, _is_existing_model(m, table_name),
                                    RegexConfidence(_is_existing_model(m, table_name))))]
    ELSE acc

\* one pass of the loop over the manifest's models
ModelRefStep(acc, model, p) ==
  IF Contains(Lower(p), Lower(model.name)) /\ FoundKey(model.name) \notin acc.found
    THEN [found |-> acc.found \cup {FoundKey(model.name)},
          refs |-> Append(acc.refs, TableReference(model.name, TRUE, 9))]
    ELSE acc

RECURSIVE RegexRefs(_, _, _, _), ModelRefs(_, _, _, _)
RegexRefs(acc, names, i, m) ==
  IF i > Len(names) THEN acc ELSE RegexRefs(RegexRefStep(acc, names[i], m), names, i + 1, m)

ModelRefs(acc, models, i, p) ==
  IF i > Len(models) THEN acc ELSE ModelRefs(ModelRefStep(acc, models[i], p), models, i + 1, p)

_extract_table_references(p, m) ==
  LET start == [found |-> {}, refs |-> <<>>]
      byRegex == RegexRefs(start, CapturedNames(p, 1), 1, m)
  IN ModelRefs(byRegex, get_all_models(m), 1, p).refs

-----------------------------------------------------------------------------
(* backend/prompt_processor.py: the other extractors.  Each works on the   *)
(* lower-cased prompt.                                                     *)

\* a pattern with one capture group:  pre (grp) post
GroupPattern(pre, grp, post) == [pre |-> pre, grp |-> grp, post |-> post]

\* the matches that start at i: <<group start, group end, end>>
GroupMatchesAt(gp, s, i) ==
  UNION {UNION {{<<p, e, z>> : z \in Ends(gp.post, s, e)} : e \in Ends(gp.grp, s, p)} :
           p \in Ends(gp.pre, s, i)}

\* [m.group(1) for m in re.finditer(pattern, s)]: leftmost matches, every
\* quantifier greedy, not overlapping
RECURSIVE FindGroups(_, _, _)
FindGroups(gp, s, pos) ==
  LET starts == {i \in pos..(Len(s) + 1) : GroupMatchesAt(gp, s, i) # {}}
      ms == GroupMatchesAt(gp, s, Min(starts))
      p == Max({t[1] : t \in ms})
      e == Max({t[2] : t \in {u \in ms : u[1] = p}})
      z == Max({t[3] : t \in {u \in ms : u[1] = p /\ u[2] = e}})
  IN IF starts = {} THEN <<>>
     ELSE <<SubSeq(s, p, e - 1)>> \o FindGroups(gp, s, z)

\* the stripped, non-empty groups of all patterns of a list, pattern by pattern
RECURSIVE StrippedGroups(_, _, _)
StrippedGroups(patterns, s, n) ==
  IF n > Len(patterns) THEN <<>>
  ELSE LET found == FindGroups(patterns[n], s, 1)
       IN FilterSeq([i \in 1..Len(found) |-> Strip(found[i])], LAMBDA x : x # "", 1)
            \o StrippedGroups(patterns, s, n + 1)

OptOuter == Opt(Cat(<<Lit("outer"), WS>>))    \* (?:outer\s+)?

\* join_patterns, in insertion order
JoinTypeOrder == <<"inner", "left", "right", "full">>

join_patterns ==
  [inner |-> << Cat(<<Lit("inner"), WS, Lit("join")>>),
                Cat(<<Lit("join"), WS,
                      NotAhead(Cat(<<DotStar, Words(<<"left", "right", "full">>)>>))>>) >>,
   left  |-> << Cat(<<Lit("left"), WS, OptOuter, Lit("join")>>) >>,
   right |-> << Cat(<<Lit("right"), WS, OptOuter, Lit("join")>>) >>,
   full  |-> << Cat(<<Lit("full"), WS, OptOuter, Lit("join")>>),
                Cat(<<Lit("full"), WS, Lit("join")>>) >>]

AnyPatternFound(patterns, p) == \E n \in 1..Len(patterns) : SearchI(patterns[n], p)

\* a detection that stops at the first join type found
RECURSIVE DetectJoinType_FirstWins(_, _, _)
DetectJoinType_FirstWins(p, i, join_type) ==
  IF i > Len(JoinTypeOrder) THEN join_type
  ELSE IF AnyPatternFound(join_patterns[JoinTypeOrder[i]], p) THEN JoinTypeOrder[i]
  ELSE DetectJoinType_FirstWins(p, i + 1, join_type)

\* the loop over join_patterns: every type whose pattern is found overwrites
\* join_type (the break leaves the inner loop only)
RECURSIVE DetectJoinType(_, _, _)
DetectJoinType(p, i, join_type) ==
  IF i > Len(JoinTypeOrder) THEN join_type
  ELSE DetectJoinType(p, i + 1,
         IF AnyPatternFound(join_patterns[JoinTypeOrder[i]], p)
           THEN JoinTypeOrder[i] ELSE join_type)

\* a JoinRequirement: [left_table, right_table, join_type]
_extract_join_requirements(p, table_refs) ==
  IF Len(table_refs) < 2 THEN <<>>
  ELSE << [left_table |-> table_refs[1].name,
           right_table |-> table_refs[2].name,
           join_type |-> DetectJoinType(p, 1, "inner")] >>

output_patterns == <<
  GroupPattern(Cat(<<Words(<<"call", "name">>), WS,
                     Alt(<<Lit("it"), Lit("this"), Cat(<<Lit("the"), WS, Lit("model")>>)>>), WS>>),
               Ident, Empty),
  GroupPattern(Cat(<<Words(<<"as", "called">>), WS>>), Ident, Empty),
  GroupPattern(Cat(<<Lit("create"), WS, OptA, Lit("model"), WS>>), Ident, Empty),
  GroupPattern(Cat(<<Lit("model"), WS, Words(<<"named", "called">>), WS>>), Ident, Empty) >>

\* the group of the first pattern that is found, "" for None
RECURSIVE _extract_output_name(_, _)
_extract_output_name(p, n) ==
  IF n > Len(output_patterns) THEN ""
  ELSE LET found == FindGroups(output_patterns[n], p, 1)
       IN IF found # <<>> THEN found[1] ELSE _extract_output_name(p, n + 1)

OptAs == Opt(Cat(<<Lit("as"), WS>>))    \* (?:as\s+)?

MaterializationOrder == <<"table", "view", "incremental">>

materialization_patterns ==
  [table |-> << Cat(<<OptAs, OptA, Lit("table")>>),
                Cat(<<Lit("materialize"), WS, OptAs, Lit("table")>>) >>,
   view |-> << Cat(<<OptAs, OptA, Lit("view")>>),
               Cat(<<Lit("materialize"), WS, OptAs, Lit("view")>>) >>,
   incremental |-> << Lit("incremental"), Lit("incrementally") >>]

RECURSIVE _extract_materialization(_, _)
_extract_materialization(p, i) ==
  IF i > Len(MaterializationOrder) THEN "view"
  ELSE IF AnyPatternFound(materialization_patterns[MaterializationOrder[i]], p)
    THEN MaterializationOrder[i]
  ELSE _extract_materialization(p, i + 1)

where_patterns == <<
  GroupPattern(Cat(<<Lit("where"), WS>>), Clause, Empty),
  GroupPattern(Cat(<<Lit("filter"), WS, Opt(Cat(<<Lit("by"), WS>>))>>), Clause, Empty),
  GroupPattern(Cat(<<Lit("only"), WS, Words(<<"show", "include", "get">>), WS>>), Clause, Empty) >>

_extract_filters(p) == StrippedGroups(where_patterns, p, 1)

OptOf == Opt(Cat(<<Lit("of"), WS>>))    \* (?:of\s+)?

agg_patterns == <<
  GroupPattern(Empty, Cat(<<Lit("sum"), WS, OptOf, WordPlus>>), Empty),
  GroupPattern(Empty, Cat(<<Lit("count"), WS, OptOf, WordPlus>>), Empty),
  GroupPattern(Empty, Alt(<<Lit("avg"), Cat(<<Lit("average"), WS, OptOf, WordPlus>>)>>), Empty),
  GroupPattern(Empty, Cat(<<Lit("min"), WS, OptOf, WordPlus>>), Empty),
  GroupPattern(Empty, Cat(<<Lit("max"), WS, OptOf, WordPlus>>), Empty),
  GroupPattern(Empty, Cat(<<Lit("group"), WS, Lit("by"), WS, WordPlus>>), Empty) >>

_extract_aggregations(p) == StrippedGroups(agg_patterns, p, 1)

transform_patterns == <<
  GroupPattern(Empty, Cat(<<Lit("calculate"), WS, Clause>>), Empty),
  GroupPattern(Empty, Cat(<<Lit("convert"), WS, Clause>>), Empty),
  GroupPattern(Empty, Cat(<<Lit("add"), WS, OptA, OptNew, Lit("column"), WS, Clause>>), Empty),
  GroupPattern(Empty, Cat(<<Lit("create"), WS, OptA, OptNew, Lit("field"), WS, Clause>>), Empty) >>

_extract_transformations(p) == StrippedGroups(transform_patterns, p, 1)

\* analyze_prompt: the intent is detected on the lower-cased prompt, the table
\* references on the prompt as typed
analyze_prompt(p, m) ==
  LET detected == _detect_intent(Lower(p))
      table_references == _extract_table_references(p, m)
  IN [intent |-> detected.intent,
      confidence |-> detected.score,
      table_references |-> table_references,
      join_requirements |-> _extract_join_requirements(Lower(p), table_references),
      output_name |-> _extract_output_name(Lower(p), 1),
      materialization |-> _extract_materialization(Lower(p), 1),
      filters |-> _extract_filters(Lower(p)),
      aggregations |-> _extract_aggregations(Lower(p)),
      transformations |-> _extract_transformations(Lower(p))]

-----------------------------------------------------------------------------
(* The prompt processor as a state machine: a prompt is typed fragment by  *)
(* fragment and then analysed against the manifest the service holds.      *)

MaxParts == 2

Fragments ==
  {"create a new model", "join Orders with orders", "left join", "calculate the sum",
   "where total", "from " \o Backtick \o "Orders" \o Backtick \o " table", "stg_orders", "I need a model", "and 'x'"}

ModelNode(id, name, deps) == Node(id, name, "model", "models/" \o name \o ".sql", "view", deps)

PromptManifests ==
  { None,
    [nodes |-> << ModelNode("model.p.stg_orders", "stg_orders", <<>>),
                  ModelNode("model.p.orders", "orders", <<"model.p.stg_orders">>),
                  ModelNode("model.q.Orders", "Orders", <<"model.p.stg_orders">>) >>] }

PromptIdle ==
  /\ prompt = ""
  /\ nparts = 0
  /\ analysis = None
  /\ ppc = "compose"

SynthIdle ==
  /\ request = None
  /\ generated = None
  /\ validation = [sql |-> None, file |-> None]
  /\ draft = ""
  /\ nlines = 0

ThreadsIdle ==
  /\ lpc = "idle"
  /\ rpc = "idle"
  /\ rcall = None
  /\ before = None

DbtIdle ==
  /\ stderr = ""
  /\ nerr = 0
  /\ dbtResult = None

\* the directories ensure_directories creates under models/
Layers == {"staging", "intermediate", "marts"}

\* a directory without schema.yml, and a schema.yml with its models list
NoSchema == [exists |-> FALSE, models |-> <<>>]
SchemaFile(models) == [exists |-> TRUE, models |-> models]

FilesIdle ==
  /\ files = {}
  /\ contents = <<>>
  /\ schemas = [layer \in Layers |-> NoSchema]
  /\ lastWritten = {}
  /\ fileResult = None

\* no server is constructed: the services are used as a library
ServerIdle ==
  /\ services = None
  /\ posted = None
  /\ response = None

\* no combined call was made
RunIdle ==
  /\ inCall = None
  /\ dbtLog = <<>>
  /\ combined = None

OthersIdle == ThreadsIdle /\ DbtIdle /\ FilesIdle /\ ServerIdle /\ RunIdle

ServiceIdle ==
  /\ loadedFrom = disk
  /\ reloaded = "never"
  /\ nreloads = 0
  /\ reply = None

InitPrompt ==
  /\ manifest \in PromptManifests
  /\ disk = OnDisk(manifest)
  /\ ServiceIdle
  /\ PromptIdle
  /\ OthersIdle
  /\ SynthIdle

Type(w) ==
  /\ ppc = "compose"
  /\ nparts < MaxParts
  /\ prompt' = (IF prompt = "" THEN w ELSE prompt \o " " \o w)
  /\ nparts' = nparts + 1
  /\ UNCHANGED <<analysis, ppc>>
  /\ UNCHANGED <<svars, yvars>>
  /\ UNCHANGED ovars

Analyze ==
  /\ ppc = "compose"
  /\ analysis' = analyze_prompt(prompt, manifest)
  /\ ppc' = "done"
  /\ UNCHANGED <<prompt, nparts>>
  /\ UNCHANGED <<svars, yvars>>
  /\ UNCHANGED ovars

NextPrompt ==
  \/ \E w \in Fragments : Type(w)
  \/ Analyze

SpecPrompt == InitPrompt /\ [][NextPrompt]_vars

-----------------------------------------------------------------------------
(* Properties of the prompt processor, checked under SpecPrompt *)

IntentIndex(t) == CHOOSE i \in 1..Len(IntentOrder) : IntentOrder[i] = t

\* the quotient matched / declared patterns of an intent on a prompt
Quotient(t, p) == [num |-> MatchCount(t, p), den |-> Len(intent_patterns[t])]

SomeIntentMatches(p) == \E t \in SeqRange(IntentOrder) : MatchCount(t, p) > 0

\* C1: _detect_intent returns the intent whose quotient of matched over declared
\* patterns no other intent exceeds, with that quotient as confidence; it returns
\* (UNKNOWN, 0.0) when no pattern matches; the confidence lies in [0, 1].
C1_ConfidenceIsNormalizedMax ==
  ppc = "done" =>
    /\ SomeIntentMatches(prompt) =>
         /\ analysis.intent \in SeqRange(IntentOrder)
         /\ analysis.confidence.num * Len(intent_patterns[analysis.intent])
              = MatchCount(analysis.intent, prompt) * analysis.confidence.den
         /\ \A t \in SeqRange(IntentOrder) : ~ScoreGT(Quotient(t, prompt), analysis.confidence)
    /\ ~SomeIntentMatches(prompt) =>
         analysis.intent = UNKNOWN /\ analysis.confidence.num = 0
    /\ analysis.confidence.den > 0
    /\ 0 <= analysis.confidence.num
    /\ analysis.confidence.num <= analysis.confidence.den

\* two intents match with different quotients and the winner matched twice
C1_Witness ==
  /\ ppc = "done"
  /\ analysis.intent = AGGREGATE_DATA
  /\ analysis.confidence = [num |-> 2, den |-> 5]
  /\ MatchCount(TRANSFORM_DATA, prompt) = 1

\* C2: among the intents that share the maximal quotient, the one declared
\* first in the pattern table is returned.
C2_TieGoesToEarliestIntent ==
  (ppc = "done" /\ analysis.intent # UNKNOWN) =>
    \A t \in SeqRange(IntentOrder) :
      (MatchCount(t, prompt) > 0 /\ ScoreEQ(Quotient(t, prompt), analysis.confidence))
        => IntentIndex(analysis.intent) <= IntentIndex(t)

\* one create pattern of five and one join pattern of five match: CREATE_MODEL
C2_Witness ==
  /\ ppc = "done"
  /\ MatchCount(CREATE_MODEL, prompt) = 1
  /\ MatchCount(JOIN_TABLES, prompt) = 1
  /\ \A t \in SeqRange(IntentOrder) : MatchCount(t, prompt) <= 1
  /\ analysis.intent = CREATE_MODEL

\* C3: no two table references have names that are equal when lower-cased.
C3_TableReferencesDeduplicated ==
  ppc = "done" =>
    \A i, j \in 1..Len(analysis.table_references) :
      i # j => Lower(analysis.table_references[i].name)
                 # Lower(analysis.table_references[j].name)

\* the prompt names Orders and orders, both are models, and the manifest scan
\* added a reference of its own
C3_Witness ==
  /\ ppc = "done"
  /\ manifest # None
  /\ Contains(prompt, "Orders")
  /\ Contains(prompt, "with orders")
  /\ \E i \in 1..Len(analysis.table_references) : analysis.table_references[i].confidence = 9
  /\ \E i \in 1..Len(analysis.table_references) : analysis.table_references[i].confidence = 8

-----------------------------------------------------------------------------
(* The manifest reader as a state machine: dbt rewrites, removes or        *)
(* corrupts target/manifest.json; the service reloads on POST /refresh and *)
(* answers queries from the snapshot it holds.                             *)

MaxReloads == 2

StgOrders ==
  Node("model.p.stg_orders", "stg_orders", "model", "models/staging/stg_orders.sql",
       "view", <<"source.p.raw_orders">>)
Orders ==
  Node("model.p.orders", "orders", "model", "models/marts/orders.sql",
       "table", <<"model.p.stg_orders">>)
Customers ==
  Node("model.p.customers", "customers", "model", "models/marts/customers.sql",
       "view", <<"model.p.stg_orders", "model.p.orders">>)
OrdersTest ==
  Node("test.p.not_null_orders_id", "not_null_orders_id", "test", "models/schema.yml",
       "view", <<"model.p.orders">>)

DiskManifests ==
  { [nodes |-> <<>>],
    [nodes |-> <<StgOrders, Orders, OrdersTest>>],
    [nodes |-> <<StgOrders, Orders, OrdersTest, Customers>>] }

DiskStates == {Missing, Invalid, NonDict} \cup {Loadable(m) : m \in DiskManifests}

QueryNames == {"orders", "stg_orders", "customers", "not_null_orders_id", "nonexistent"}

\* __init__: self.manifest = None, then _load_manifest()
Init ==
  /\ disk \in DiskStates
  /\ manifest = _load_manifest(disk, None)
  /\ ServiceIdle
  /\ PromptIdle
  /\ OthersIdle
  /\ SynthIdle

\* the file changes under the service
WriteDisk(d) ==
  /\ d # disk
  /\ disk' = d
  /\ nreloads' = 0
  /\ UNCHANGED <<manifest, loadedFrom, reloaded, reply>>
  /\ UNCHANGED <<pvars, yvars>>
  /\ UNCHANGED ovars

DbtCompile == \E m \in DiskManifests : WriteDisk(Loadable(m))
RemoveManifest == WriteDisk(Missing)
CorruptManifest == \E d \in {Invalid, NonDict} : WriteDisk(d)

reload_manifest ==
  /\ nreloads < MaxReloads
  /\ manifest' = _load_manifest(disk, manifest)
  /\ reloaded' = ReloadReturn(manifest')
  /\ loadedFrom' = disk
  /\ nreloads' = nreloads + 1
  /\ UNCHANGED <<disk, reply>>
  /\ UNCHANGED <<pvars, yvars>>
  /\ UNCHANGED ovars

Reply(op, arg, result) == [op |-> op, arg |-> arg, result |-> result]

QueryAllModels ==
  /\ reply' = Reply("get_all_models", "", get_all_models(manifest))
  /\ UNCHANGED <<disk, manifest, loadedFrom, reloaded, nreloads>>
  /\ UNCHANGED <<pvars, yvars>>
  /\ UNCHANGED ovars

QueryModelByName ==
  /\ \E n \in QueryNames : reply' = Reply("get_model_by_name", n, get_model_by_name(manifest, n))
  /\ UNCHANGED <<disk, manifest, loadedFrom, reloaded, nreloads>>
  /\ UNCHANGED <<pvars, yvars>>
  /\ UNCHANGED ovars

QueryDependencies ==
  /\ \E n \in QueryNames :
       reply' = Reply("get_model_dependencies", n, get_model_dependencies(manifest, n))
  /\ UNCHANGED <<disk, manifest, loadedFrom, reloaded, nreloads>>
  /\ UNCHANGED <<pvars, yvars>>
  /\ UNCHANGED ovars

Next ==
  \/ DbtCompile
  \/ RemoveManifest
  \/ CorruptManifest
  \/ reload_manifest
  \/ QueryAllModels
  \/ QueryModelByName
  \/ QueryDependencies

Spec == Init /\ [][Next]_vars

-----------------------------------------------------------------------------
(* Properties of the manifest reader, checked under Spec *)

\* a model list by name, path and materialization
Summary(models) ==
  [i \in 1..Len(models) |->
     <<models[i].name, models[i].path, models[i].materialization>>]

\* C8: a reload while the file is as the previous load found it leaves
\* get_all_models() unchanged, by name, path and materialization and in count.
C8_ReloadIdempotent ==
  [][(reload_manifest /\ disk = loadedFrom)
       => Summary(get_all_models(manifest')) = Summary(get_all_models(manifest))]_vars

\* two reloads in a row of an unchanged manifest that has models
C8_Witness ==
  /\ nreloads = 2
  /\ disk = loadedFrom
  /\ disk.kind = "ok"
  /\ Len(get_all_models(manifest)) >= 2

\* what the service holds when its snapshot corresponds to the file d
SnapshotOf(d) == IF d.kind = "ok" THEN d.content ELSE None

\* C9: after a reload the snapshot corresponds to the file as it is (empty when
\* the file is gone), and reload_manifest returned True only if it read one.
C9_ReloadReflectsDisk ==
  (reloaded # "never" /\ disk = loadedFrom) =>
    /\ manifest = SnapshotOf(disk)
    /\ disk.kind = "missing" => get_all_models(manifest) = <<>>
    /\ reloaded = "True" => disk.kind = "ok"

\* C10: while the file is missing or unreadable the service is in the empty
\* state and every query answers with its empty value; with a manifest loaded
\* the same holds for every name that is not a model.
IsModelName(m, n) ==
  m # None /\ \E i \in 1..Len(m.nodes) : IsModelNode(m.nodes[i]) /\ m.nodes[i].name = n

C10_AbsenceIsData ==
  /\ (disk = loadedFrom /\ disk.kind \in {"missing", "invalid", "nondict"}) =>
       /\ manifest = None
       /\ get_all_models(manifest) = <<>>
       /\ \A n \in QueryNames :
            /\ get_model_by_name(manifest, n) = None
            /\ get_model_dependencies(manifest, n) = NoDependencies
  /\ \A n \in QueryNames :
       ~IsModelName(manifest, n) =>
         /\ get_model_by_name(manifest, n) = None
         /\ get_model_dependencies(manifest, n) = NoDependencies

-----------------------------------------------------------------------------
(* Dependency queries over a family of manifests: three nodes, two of them *)
(* possibly of one name, one possibly not a model, and every assignment of *)
(* depends_on lists with at most MaxDeps entries in all, no node depending *)
(* on itself (dbt compiles no manifest with such a cycle).                 *)

MaxDeps == 2

DepIds == <<"model.p.a", "model.p.b", "model.q.c">>
DepTargets == SeqRange(DepIds) \cup {"source.p.raw"}
DepNames == {"a", "b", "c"}

SeqsUpTo(S, n) == UNION {[1..k -> S] : k \in 0..n}

DepLists ==
  {f \in [1..3 -> SeqsUpTo(DepTargets, MaxDeps)] :
     /\ Len(f[1]) + Len(f[2]) + Len(f[3]) <= MaxDeps
     /\ \A i \in 1..3 : DepIds[i] \notin SeqRange(f[i])}

DepManifests ==
  {[nodes |-> << Node(DepIds[1], "a", "model", "models/a.sql", "view", f[1]),
                 Node(DepIds[2], "b", rtype, "models/b.sql", "view", f[2]),
                 Node(DepIds[3], name3, "model", "models/c.sql", "table", f[3]) >>] :
     f \in DepLists, rtype \in {"model", "seed"}, name3 \in {"b", "c"}}

InitDeps ==
  /\ manifest \in DepManifests
  /\ disk = OnDisk(manifest)
  /\ ServiceIdle
  /\ PromptIdle
  /\ OthersIdle
  /\ SynthIdle

LookupDependencies ==
  /\ \E n \in DepNames :
       reply' = Reply("get_model_dependencies", n, get_model_dependencies(manifest, n))
  /\ UNCHANGED <<disk, manifest, loadedFrom, reloaded, nreloads>>
  /\ UNCHANGED <<pvars, yvars>>
  /\ UNCHANGED ovars

NextDeps ==
  \/ LookupDependencies
  \/ QueryAllModels

SpecDeps == InitDeps /\ [][NextDeps]_vars

ModelNodes(m) == IF m = None THEN {} ELSE {n \in SeqRange(m.nodes) : IsModelNode(n)}

UniqueModelNames(m) ==
  \A a, b \in ModelNodes(m) : a.id # b.id => a.name # b.name

Upstream(m, n) == SeqRange(get_model_dependencies(m, n).upstream)
Downstream(m, n) == SeqRange(get_model_dependencies(m, n).downstream)

\* C7 as stated: for any two models A and B of any manifest, B.name among the
\* upstream names of A.name implies A.name among the downstream names of B.name.
C7_DependencySymmetry_AnyManifest ==
  \A a, b \in ModelNodes(manifest) :
    (a.id # b.id /\ b.name \in Upstream(manifest, a.name))
      => a.name \in Downstream(manifest, b.name)

\* C7 (amended): the same, for manifests in which no two models share a name.
C7_DependencySymmetry ==
  UniqueModelNames(manifest) =>
    \A a, b \in ModelNodes(manifest) :
      (a.id # b.id /\ b.name \in Upstream(manifest, a.name))
        => a.name \in Downstream(manifest, b.name)

\* the dependencies of a model with an upstream model were looked up, in a
\* manifest of three models with distinct names
C7_Witness ==
  /\ UniqueModelNames(manifest)
  /\ Cardinality(ModelNodes(manifest)) = 3
  /\ reply # None
  /\ reply.op = "get_model_dependencies"
  /\ reply.result.upstream # <<>>
  /\ reply.result.downstream # <<>>

-----------------------------------------------------------------------------
(* backend/ai_service.py: the pattern-based synthesizer.  A PromptAnalysis *)
(* is [intent, table_references, join_requirements, filters, aggregations, *)
(* transformations, output_name, materialization]; an absent output_name   *)
(* is "" (the code tests it for truth only).  SQL is built as a list of    *)
(* lines and joined with newlines.                                         *)

\* a reference that is always wrapped in ref()
RefText_AlwaysRef(table_ref) == "{{ ref('" \o table_ref.name \o "') }}"

\* f"{{{{ ref('{name}') }}}}" if is_model else name
RefText(table_ref) ==
  IF table_ref.is_model THEN "{{ ref('" \o table_ref.name \o "') }}" ELSE table_ref.name

\* filter lines that all carry the and-prefix
RECURSIVE FilterLines_AndEverywhere(_, _)
FilterLines_AndEverywhere(filters, i) ==
  IF i > Len(filters) THEN <<>>
  ELSE <<"    and " \o filters[i]>> \o FilterLines_AndEverywhere(filters, i + 1)

\* the where section shared by the join and the filter skeleton
RECURSIVE FilterLines(_, _)
FilterLines(filters, i) ==
  IF i > Len(filters) THEN <<>>
  ELSE <<(IF i = 1 THEN "    " ELSE "    and ") \o filters[i]>> \o FilterLines(filters, i + 1)

WhereSection(filters) ==
  IF filters # <<>> THEN <<"  where">> \o FilterLines(filters, 1) ELSE <<>>

\* sql_parts[-1] without its trailing comma
StripLastComma(parts) ==
  IF EndsWith(parts[Len(parts)], ",")
    THEN [parts EXCEPT ![Len(parts)] = SubSeq(@, 1, Len(@) - 1)]
    ELSE parts

_generate_simple_select_sql(a) ==
  IF a.table_references = <<>>
    THEN << "-- No table references found in prompt",
            "-- Please specify which tables or models to use",
            "select 1 as placeholder" >>
    ELSE << "select * from " \o RefText(a.table_references[1]) >>

_generate_join_sql(a) ==
  IF Len(a.table_references) < 2 THEN _generate_simple_select_sql(a)
  ELSE
    LET left_ref == RefText(a.table_references[1])
        right_ref == RefText(a.table_references[2])
        join_type == IF a.join_requirements # <<>>
                       THEN a.join_requirements[1].join_type ELSE "inner"
    IN << "with",
          "",
          "left_table as (",
          "  select * from " \o left_ref,
          "),",
          "",
          "right_table as (",
          "  select * from " \o right_ref,
          "),",
          "",
          "final as (",
          "  select",
          "    left_table.*,",
          "    right_table.*",
          "  from left_table",
          "  " \o join_type \o " join right_table",
          "    on left_table.id = right_table.id  -- Adjust join condition as needed" >>
       \o WhereSection(a.filters)
       \o << ")", "", "select * from final" >>

_generate_aggregate_sql(a) ==
  IF a.table_references = <<>> THEN << "select 1 as placeholder" >>
  ELSE
    LET head == << "with",
                   "",
                   "source_data as (",
                   "  select * from " \o RefText(a.table_references[1]),
                   "),",
                   "",
                   "aggregated as (",
                   "  select" >>
        items == IF a.aggregations # <<>>
                   THEN [i \in 1..Len(a.aggregations) |-> "    " \o a.aggregations[i] \o ","]
                   ELSE << "    count(*) as row_count,",
                           "    count(distinct id) as unique_ids  -- Adjust columns as needed" >>
        group == IF \E i \in 1..Len(a.aggregations) : Contains(Lower(a.aggregations[i]), "group by")
                   THEN << "  group by 1  -- Adjust grouping columns as needed" >>
                   ELSE <<>>
    IN StripLastComma(head \o items)
       \o << "  from source_data" >>
       \o group
       \o << ")", "", "select * from aggregated" >>

_generate_filter_sql(a) ==
  IF a.table_references = <<>> THEN << "select 1 as placeholder" >>
  ELSE << "with",
          "",
          "source_data as (",
          "  select * from " \o RefText(a.table_references[1]),
          "),",
          "",
          "filtered as (",
          "  select *",
          "  from source_data" >>
       \o WhereSection(a.filters)
       \o << ")", "", "select * from filtered" >>

\* the comment line a transformation fragment is mapped to, if any
TransformLine(transform) ==
  IF Contains(Lower(transform), "calculate") THEN << "    -- Add calculated fields here" >>
  ELSE IF Contains(Lower(transform), "convert") THEN << "    -- Add conversion logic here" >>
  ELSE IF Contains(Lower(transform), "column") \/ Contains(Lower(transform), "field")
    THEN << "    -- Add new column here" >>
  ELSE <<>>

RECURSIVE TransformLines(_, _)
TransformLines(transformations, i) ==
  IF i > Len(transformations) THEN <<>>
  ELSE TransformLine(transformations[i]) \o TransformLines(transformations, i + 1)

_generate_transform_sql(a) ==
  IF a.table_references = <<>> THEN << "select 1 as placeholder" >>
  ELSE
    LET head == << "with",
                   "",
                   "source_data as (",
                   "  select * from " \o RefText(a.table_references[1]),
                   "),",
                   "",
                   "transformed as (",
                   "  select",
                   "    *," >>
        items == IF a.transformations # <<>>
                   THEN TransformLines(a.transformations, 1)
                   ELSE << "    current_timestamp as processed_at" >>
    IN StripLastComma(head \o items)
       \o << "  from source_data", ")", "", "select * from transformed" >>

IntentPrefix(intent) ==
  CASE intent = JOIN_TABLES -> "joined_"
    [] intent = AGGREGATE_DATA -> "agg_"
    [] intent = FILTER_DATA -> "filtered_"
    [] intent = TRANSFORM_DATA -> "transformed_"
    [] OTHER -> "new_"

_generate_model_name(a) ==
  IF a.table_references # <<>>
    THEN IntentPrefix(a.intent) \o a.table_references[1].name
    ELSE "generated_model"

\* a config block that is emitted for every materialization
ConfigBlock_Always(materialization) ==
  << "{{", "  config(", "    materialized='" \o materialization \o "'", "  )", "}}", "" >>

\* the config block, for a materialization other than view
ConfigBlock(materialization) ==
  IF materialization # "view"
    THEN << "{{", "  config(", "    materialized='" \o materialization \o "'", "  )", "}}", "" >>
    ELSE <<>>

\* the first branch of the dispatch on the intent
UsesJoinSkeleton(a) ==
  a.intent = JOIN_TABLES /\ Len(a.table_references) >= 2

SkeletonLines(a) ==
  IF UsesJoinSkeleton(a) THEN _generate_join_sql(a)
  ELSE IF a.intent = AGGREGATE_DATA THEN _generate_aggregate_sql(a)
  ELSE IF a.intent = FILTER_DATA THEN _generate_filter_sql(a)
  ELSE IF a.intent = TRANSFORM_DATA THEN _generate_transform_sql(a)
  ELSE _generate_simple_select_sql(a)

\* the mock's fixed confidence 0.8, in tenths
MockConfidence == 8

_mock_kiro_ai_generation(a) ==
  [sql |-> Join(ConfigBlock(a.materialization) \o SkeletonLines(a), "\n"),
   model_name |-> IF a.output_name # "" THEN a.output_name ELSE _generate_model_name(a),
   materialization |-> a.materialization,
   confidence |-> MockConfidence]

-----------------------------------------------------------------------------
(* The two validators.  A validation result is [is_valid, errors,         *)
(* warnings, suggestions]; each check is a step from result to result, in  *)
(* the order the code runs them.                                           *)

FreshResult == [is_valid |-> TRUE, errors |-> <<>>, warnings |-> <<>>, suggestions |-> <<>>]

AddError(r, msg) == [r EXCEPT !.errors = Append(@, msg), !.is_valid = FALSE]
AddWarning(r, msg) == [r EXCEPT !.warnings = Append(@, msg)]
AddSuggestion(r, msg) == [r EXCEPT !.suggestions = Append(@, msg)]

TrailingCommaMessage(n) == "Trailing comma on line " \o ToString(n) \o " may cause issues"

(* KiroAIService.validate_generated_sql *)

RefAdvice(r, sql) ==
  IF Contains(Lower(sql), "from ") /\ ~Contains(sql, "{{ ref(") /\ ~Contains(sql, "{{ source(")
    THEN AddWarning(r, "Consider using {{ ref('model_name') }} for dbt model references")
    ELSE r

SelectCheck(r, sql) ==
  IF ~Contains(Lower(sql), "select")
    THEN AddError(r, "SQL must contain a SELECT statement")
    ELSE r

\* the comma test of the loop body, i counted from 1
CommaBeforeNextLine(lines, i) ==
  /\ EndsWith(Strip(lines[i]), ",")
  /\ i < Len(lines)
  /\ \/ Contains(Lower(lines[i + 1]), "from")
     \/ Contains(Strip(lines[i + 1]), ")")

RECURSIVE TrailingCommaScan(_, _, _)
TrailingCommaScan(r, lines, i) ==
  IF i > Len(lines) THEN r
  ELSE TrailingCommaScan(
         IF CommaBeforeNextLine(lines, i) THEN AddWarning(r, TrailingCommaMessage(i)) ELSE r,
         lines, i + 1)

validate_generated_sql(sql) ==
  TrailingCommaScan(SelectCheck(RefAdvice(FreshResult, sql), sql), SplitLines(sql), 1)

(* ModelFileManager.validate_model_file and its three checks *)

ContentSelectCheck(r, content) ==
  IF ~Contains(Lower(content), "select")
    THEN AddError(r, "Model must contain a SELECT statement")
    ELSE r

\* a parenthesis check that writes the outcome of the comparison
ParenCheck_Assigns(r, content) ==
  [r EXCEPT !.is_valid = (CountOf(content, "(") = CountOf(content, ")")),
            !.errors = IF CountOf(content, "(") # CountOf(content, ")")
                         THEN Append(@, "Unmatched parentheses in SQL") ELSE @]

ParenCheck(r, content) ==
  IF CountOf(content, "(") # CountOf(content, ")")
    THEN AddError(r, "Unmatched parentheses in SQL")
    ELSE r

ClauseStarts == {"from", "where", "group", "order", "having", ")"}

\* the first non-empty stripped, lowered line after line i, or ""
RECURSIVE NextSolidLine(_, _)
NextSolidLine(lines, j) ==
  IF j > Len(lines) THEN ""
  ELSE IF Strip(lines[j]) # "" THEN Lower(Strip(lines[j]))
  ELSE NextSolidLine(lines, j + 1)

CommaBeforeClause(lines, i) ==
  /\ EndsWith(Strip(lines[i]), ",")
  /\ \E w \in ClauseStarts : StartsWith(NextSolidLine(lines, i + 1), w)

RECURSIVE ContentCommaScan(_, _, _)
ContentCommaScan(r, lines, i) ==
  IF i > Len(lines) THEN r
  ELSE ContentCommaScan(
         IF CommaBeforeClause(lines, i) THEN AddWarning(r, TrailingCommaMessage(i)) ELSE r,
         lines, i + 1)

_validate_sql_content(content, r) ==
  ContentCommaScan(ParenCheck(ContentSelectCheck(r, content), content), SplitLines(content), 1)

\* re.findall of  open [^stop]* stop close  (the two Jinja patterns), from i
RECURSIVE DelimitedMatches(_, _, _, _)
DelimitedMatches(content, open, close, i) ==
  LET opens == {k \in i..(Len(content) - 1) : SubSeq(content, k, k + 1) = open}
      o == CHOOSE x \in opens : \A y \in opens : x <= y
      stops == {k \in (o + 2)..Len(content) : Char(content, k) = Char(close, 1)}
      k == IF stops = {} THEN 0 ELSE CHOOSE x \in stops : \A y \in stops : x <= y
  IN IF opens = {} THEN <<>>
     ELSE IF k # 0 /\ k + 1 <= Len(content) /\ SubSeq(content, k, k + 1) = close
       THEN <<SubSeq(content, o, k + 1)>> \o DelimitedMatches(content, open, close, k + 2)
       ELSE DelimitedMatches(content, open, close, o + 1)

RECURSIVE JinjaScan(_, _, _)
JinjaScan(r, matches, i) ==
  IF i > Len(matches) THEN r
  ELSE JinjaScan(
         IF CountOf(matches[i], "{") # CountOf(matches[i], "}")
           THEN AddError(r, "Invalid Jinja syntax: " \o matches[i]) ELSE r,
         matches, i + 1)

_validate_dbt_syntax(content, r) ==
  LET r1 == IF /\ Contains(Lower(content), " from ")
               /\ ~Contains(content, "{{ ref(")
               /\ ~Contains(content, "{{ source(")
              THEN AddSuggestion(r, "Consider using {{ ref('model_name') }} for model references")
              ELSE r
      r2 == IF Contains(content, "materialized") /\ ~Contains(content, "{{ config(")
              THEN AddSuggestion(r1, "Use {{ config() }} block for model configuration")
              ELSE r1
      r3 == JinjaScan(r2, DelimitedMatches(content, "{{", "}}", 1), 1)
  IN JinjaScan(r3, DelimitedMatches(content, "{%", "%}", 1), 1)

\* a model file: its layer directory, its stem and its content
ModelFile(layer, stem, content) == [layer |-> layer, stem |-> stem, content |-> content]

PathOf(file) == "models/" \o file.layer \o "/" \o file.stem \o ".sql"

AlnumChars == UpperChars \cup CharsOf(LowerAlpha) \cup CharsOf(Digits)

\* model_name.replace('_', '').replace('-', '').isalnum()
IsAlnumBesidesSeparators(stem) ==
  LET kept == {i \in 1..Len(stem) : Char(stem, i) \notin {"_", "-"}}
  IN kept # {} /\ \A i \in kept : Char(stem, i) \in AlnumChars

_validate_file_naming(file, r) ==
  LET r1 == IF ~IsAlnumBesidesSeparators(file.stem)
              THEN AddWarning(r, "Model name should only contain letters, numbers, and underscores")
              ELSE r
  IN IF StartsWith(file.stem, "stg_") /\ ~Contains(PathOf(file), "staging")
       THEN AddSuggestion(r1, "Staging models (stg_*) should be in staging directory")
     ELSE IF StartsWith(file.stem, "int_") /\ ~Contains(PathOf(file), "intermediate")
       THEN AddSuggestion(r1, "Intermediate models (int_*) should be in intermediate directory")
     ELSE IF /\ \E pre \in {"dim_", "fct_", "mart_"} : StartsWith(file.stem, pre)
             /\ ~Contains(PathOf(file), "marts")
       THEN AddSuggestion(r1, "Mart models should be in marts directory")
     ELSE r1

\* for a file that exists and can be read
validate_model_file(file) ==
  _validate_file_naming(file,
    _validate_dbt_syntax(file.content,
      _validate_sql_content(file.content, FreshResult)))

-----------------------------------------------------------------------------
(* The synthesizer and the validators as a state machine: an analysis is   *)
(* handed to the synthesizer, which emits SQL; SQL text is posted to the    *)
(* /validate endpoint and model files are validated by name.               *)

MaxRefs == 2
MaxFilters == 2

PromptAnalysis(intent, refs, joins, filters, aggs, transforms, output_name, mat) ==
  [intent |-> intent, table_references |-> refs, join_requirements |-> joins,
   filters |-> filters, aggregations |-> aggs, transformations |-> transforms,
   output_name |-> output_name, materialization |-> mat]

JoinRequirement(left_table, right_table, join_type) ==
  [left_table |-> left_table, right_table |-> right_table, join_type |-> join_type]

RefChoices ==
  { TableReference("orders", TRUE, 9),
    TableReference("customers", TRUE, 8),
    TableReference("raw_events", FALSE, 6) }

\* reference lists as _extract_table_references leaves them: no name twice
RefLists ==
  {q \in SeqsUpTo(RefChoices, MaxRefs) :
     \A i, j \in 1..Len(q) : i # j => FoundKey(q[i].name) # FoundKey(q[j].name)}

\* filter fragments as _extract_filters cuts them out of a lower-cased prompt
FilterTexts == { "status = 'active'", "final as (" }
FilterLists == SeqsUpTo(FilterTexts, MaxFilters)

AggregationLists == { <<>>, <<"sum of amount">>, <<"count orders", "group by region">> }
TransformationLists == { <<>>, <<"calculate the margin">>, <<"uppercase the name">> }
Materializations == { "view", "table", "incremental" }

\* _extract_join_requirements: nothing below two references, else one
\* requirement between the first two
JoinLists(intent, refs) ==
  IF Len(refs) < 2 THEN { <<>> }
  ELSE { <<JoinRequirement(refs[1].name, refs[2].name, t)>> :
           t \in (IF intent = JOIN_TABLES THEN {"inner", "left"} ELSE {"inner"}) }

Requests ==
  UNION { UNION { UNION {
    { PromptAnalysis(t, refs, joins,
                     IF t \in {JOIN_TABLES, FILTER_DATA} THEN fs ELSE <<>>,
                     IF t = AGGREGATE_DATA THEN gs ELSE <<>>,
                     IF t = TRANSFORM_DATA THEN xs ELSE <<>>,
                     IF t = CREATE_MODEL THEN nm ELSE "",
                     mat) :
        fs \in FilterLists, gs \in AggregationLists, xs \in TransformationLists,
        nm \in {"", "my_model"}, mat \in Materializations }
    : joins \in JoinLists(t, refs) } : refs \in RefLists } : t \in IntentType }

InitSynth ==
  /\ request \in Requests
  /\ generated = None
  /\ validation = [sql |-> None, file |-> None]
  /\ draft = ""
  /\ nlines = 0
  /\ manifest = None
  /\ disk = Missing
  /\ ServiceIdle
  /\ PromptIdle
  /\ OthersIdle

\* generate_sql_from_analysis
Generate ==
  /\ generated = None
  /\ generated' = _mock_kiro_ai_generation(request)
  /\ UNCHANGED <<request, validation, draft, nlines>>
  /\ UNCHANGED <<svars, pvars>>
  /\ UNCHANGED ovars

\* POST /validate with sql
ValidateSql(sql) ==
  /\ sql # ""
  /\ validation' = [validation EXCEPT
                      !.sql = [input |-> sql, result |-> validate_generated_sql(sql)]]
  /\ UNCHANGED <<request, generated, draft, nlines>>
  /\ UNCHANGED <<svars, pvars>>
  /\ UNCHANGED ovars

\* POST /validate with model_name, the file being found
ValidateModel(file) ==
  /\ validation' = [validation EXCEPT
                      !.file = [input |-> file.content, result |-> validate_model_file(file)]]
  /\ UNCHANGED <<request, generated, draft, nlines>>
  /\ UNCHANGED <<svars, pvars>>
  /\ UNCHANGED ovars

NextSynth ==
  \/ Generate
  \/ generated # None /\ ValidateSql(generated.sql)

SpecSynth == InitSynth /\ [][NextSynth]_vars

-----------------------------------------------------------------------------
(* The validators on text of any kind: SQL is written line by line, posted *)
(* to /validate as text, or saved as a model file and validated by name.   *)

MaxLines == 2

SqlLines ==
  { "select id,",
    "FROM {{ ref('orders') }}",
    "insert into t values (1)",
    "  where (a = 1",
    "",
    "{{ { }} materialized" }

\* where the text is saved: a layer directory and a file stem
ModelPlaces == { [layer |-> "staging", stem |-> "stg_orders"],
                 [layer |-> "marts", stem |-> "int_a!"] }

InitValidate ==
  /\ SynthIdle
  /\ manifest = None
  /\ disk = Missing
  /\ ServiceIdle
  /\ PromptIdle
  /\ OthersIdle

WriteLine(line) ==
  /\ nlines < MaxLines
  /\ draft' = (IF nlines = 0 THEN line ELSE draft \o "\n" \o line)
  /\ nlines' = nlines + 1
  /\ UNCHANGED <<request, generated, validation>>
  /\ UNCHANGED <<svars, pvars>>
  /\ UNCHANGED ovars

NextValidate ==
  \/ \E line \in SqlLines : WriteLine(line)
  \/ ValidateSql(draft)
  \/ \E place \in ModelPlaces : ValidateModel(ModelFile(place.layer, place.stem, draft))

SpecValidate == InitValidate /\ [][NextValidate]_vars

-----------------------------------------------------------------------------
(* Properties of the synthesizer and the validators, checked under         *)
(* SpecSynth and SpecValidate                                              *)

Sites == {"sql", "file"}

LacksSelect(text) == ~Contains(Lower(text), "select")

\* C6: at both validator call sites, text without `select` (in any case) is
\* reported invalid with an error recorded, whatever the later checks of the
\* same validation find; so a valid result implies that `select` is present.
C6_NoSelectIsInvalid ==
  \A site \in Sites :
    validation[site] # None =>
      /\ LacksSelect(validation[site].input) =>
           /\ validation[site].result.is_valid = FALSE
           /\ validation[site].result.errors # <<>>
      /\ validation[site].result.is_valid = TRUE => ~LacksSelect(validation[site].input)

\* both sites have validated text without `select`, the file one with later
\* checks that had findings of their own
C6_Witness ==
  /\ validation.sql # None
  /\ validation.file # None
  /\ LacksSelect(validation.sql.input)
  /\ LacksSelect(validation.file.input)
  /\ ~validation.sql.result.is_valid
  /\ ~validation.file.result.is_valid
  /\ Len(validation.file.result.errors) >= 2

\* the positions of the table references the chosen skeleton reads
ReadPositions(a) ==
  IF UsesJoinSkeleton(a) THEN {1, 2}
  ELSE IF a.table_references # <<>> THEN {1}
  ELSE {}

\* the SQL has the line that selects everything from target, as a CTE body
\* (indented by two) or as the whole statement
HasSourceLine(sql, target) ==
  \E line \in SeqRange(SplitLines(sql)) :
    \/ line = "  select * from " \o target
    \/ line = "select * from " \o target

Wrapped(name) == "{{ ref('" \o name \o "') }}"

\* C4 as stated: every table reference of the analysis shows in the emitted
\* SQL, wrapped in ref() if it is a model, bare and never wrapped otherwise.
C4_EveryReferenceEmitted ==
  generated # None =>
    \A k \in 1..Len(request.table_references) :
      LET r == request.table_references[k]
      IN IF r.is_model
           THEN Contains(generated.sql, Wrapped(r.name))
           ELSE /\ Contains(generated.sql, r.name)
                /\ ~Contains(generated.sql, "ref('" \o r.name \o "')")

\* C4, amended: every table reference the chosen skeleton reads (the first
\* two for a join of at least two references, otherwise the first) is
\* selected from on a line of its own, wrapped in ref() if it is a model, bare
\* and not wrapped otherwise.
C4_ReadReferencesRefOrRaw ==
  generated # None =>
    \A k \in ReadPositions(request) :
      LET r == request.table_references[k]
      IN IF r.is_model
           THEN HasSourceLine(generated.sql, Wrapped(r.name))
           ELSE /\ HasSourceLine(generated.sql, r.name)
                /\ ~HasSourceLine(generated.sql, Wrapped(r.name))

\* a join was synthesized from a model and a raw table
C4_Witness ==
  /\ generated # None
  /\ UsesJoinSkeleton(request)
  /\ request.table_references[1].is_model
  /\ ~request.table_references[2].is_model
  /\ HasSourceLine(generated.sql, Wrapped(request.table_references[1].name))
  /\ HasSourceLine(generated.sql, request.table_references[2].name)

\* C5: a join synthesized from at least two table references has exactly one
\* `final as (` and contains `join`, whatever the filters, the join
\* requirements and the materialization of the analysis.
C5_JoinSkeletonWellFormed ==
  (generated # None /\ request.intent = JOIN_TABLES /\ Len(request.table_references) >= 2) =>
    /\ CountOf(generated.sql, "final as (") = 1
    /\ Contains(generated.sql, "join")

PlaceholderLines ==
  << "-- No table references found in prompt",
     "-- Please specify which tables or models to use",
     "select 1 as placeholder" >>

\* C12: for every intent, an analysis without table references is
\* synthesized into the statement `select 1 as placeholder` together with the
\* two explanatory comment lines.
C12_PlaceholderWithComments ==
  (generated # None /\ request.table_references = <<>>) =>
    \A k \in 1..Len(PlaceholderLines) :
      PlaceholderLines[k] \in SeqRange(SplitLines(generated.sql))

\* C13 as stated: intent UNKNOWN, no table references and no output_name give
\* exactly the three placeholder lines, whatever the materialization, and the
\* model name generated_model.
C13_ExactPlaceholder_AnyMaterialization ==
  (/\ generated # None
   /\ request.intent = UNKNOWN
   /\ request.table_references = <<>>
   /\ request.output_name = "") =>
    /\ generated.sql = Join(PlaceholderLines, "\n")
    /\ generated.model_name = "generated_model"

\* the text of the config block for a materialization, with its empty line
ConfigText(mat) == "{{\n  config(\n    materialized='" \o mat \o "'\n  )\n}}\n\n"

\* C13, amended: intent UNKNOWN, no table references and no output_name give
\* the model name generated_model and, for the materialization view, exactly
\* the three placeholder lines; for any other materialization the config
\* block precedes them and nothing follows.
C13_ExactPlaceholder ==
  (/\ generated # None
   /\ request.intent = UNKNOWN
   /\ request.table_references = <<>>
   /\ request.output_name = "") =>
    /\ generated.model_name = "generated_model"
    /\ generated.sql =
         IF request.materialization = "view"
           THEN Join(PlaceholderLines, "\n")
           ELSE ConfigText(request.materialization) \o Join(PlaceholderLines, "\n")

\* both cases have been synthesized: this state holds the one with a config block
C13_Witness ==
  /\ generated # None
  /\ request.intent = UNKNOWN
  /\ request.table_references = <<>>
  /\ request.output_name = ""
  /\ request.materialization = "incremental"
  /\ Len(SplitLines(generated.sql)) = 9

\* the skeleton is one that has a where section
HasWhereSkeleton(a) ==
  \/ UsesJoinSkeleton(a)
  \/ a.intent = FILTER_DATA /\ a.table_references # <<>>

\* the positions of the lines `  where`
WherePositions(lines) == {i \in 1..Len(lines) : lines[i] = "  where"}

\* C20: in the join and the filter skeleton the where section is there iff
\* filters is non-empty; it is a `where` line followed by one line per
\* filter in order, the first with the bare filter text and every later one
\* with the prefix `and `, so that len(filters) - 1 lines carry the prefix;
\* the line closing the CTE follows.
C20_WhereSection ==
  (generated # None /\ HasWhereSkeleton(request)) =>
    LET lines == SplitLines(generated.sql)
        fs == request.filters
        at == WherePositions(lines)
    IN /\ (at # {}) <=> (fs # <<>>)
       /\ Cardinality(at) <= 1
       /\ fs # <<>> =>
            LET w == CHOOSE i \in at : TRUE
            IN /\ w + Len(fs) + 1 <= Len(lines)
               /\ lines[w + 1] = "    " \o fs[1]
               /\ \A k \in 2..Len(fs) : lines[w + k] = "    and " \o fs[k]
               /\ lines[w + Len(fs) + 1] = ")"
               /\ Cardinality({k \in 1..Len(fs) : lines[w + k] = "    and " \o fs[k]})
                    = Len(fs) - 1

\* a join with two filters was synthesized
C20_Witness ==
  /\ generated # None
  /\ UsesJoinSkeleton(request)
  /\ Len(request.filters) = 2
  /\ request.filters[1] # request.filters[2]
  /\ WherePositions(SplitLines(generated.sql)) # {}

-----------------------------------------------------------------------------
(* The pattern-based pipeline as a state machine: a generation request     *)
(* carries a prompt, which is analysed against the manifest and handed to  *)
(* the synthesizer in one step.                                            *)

PipelineFragments ==
  { "create a model that",
    "joins customers with orders",
    "join customers with orders",
    "left join customers to orders",
    "right outer join",
    "where status = 1" }

\* ModelGenerationRequest.output_name (None is "") and .materialization
RequestedNames == { "", "requested_name" }
RequestedMaterializations == { "view", "table", "" }

\* the request's parameters replace the analysis's where they are truthy
Override(a, output_name, materialization) ==
  [a EXCEPT !.output_name = IF output_name # "" THEN output_name ELSE @,
            !.materialization = IF materialization # "" THEN materialization ELSE @]

InitPipeline ==
  /\ manifest \in PromptManifests
  /\ disk = OnDisk(manifest)
  /\ ServiceIdle
  /\ PromptIdle
  /\ OthersIdle
  /\ SynthIdle

_generate_with_pattern_ai ==
  /\ ppc = "compose"
  /\ analysis' = analyze_prompt(prompt, manifest)
  /\ \E output_name \in RequestedNames, materialization \in RequestedMaterializations :
       request' = Override(analysis', output_name, materialization)
  /\ generated' = _mock_kiro_ai_generation(request')
  /\ ppc' = "done"
  /\ UNCHANGED <<prompt, nparts, validation, draft, nlines>>
  /\ UNCHANGED svars
  /\ UNCHANGED ovars

NextPipeline ==
  \/ \E w \in PipelineFragments : Type(w)
  \/ _generate_with_pattern_ai

SpecPipeline == InitPipeline /\ [][NextPipeline]_vars

-----------------------------------------------------------------------------
(* Properties of the pipeline, checked under SpecPipeline *)

RefNames(refs) == [i \in 1..Len(refs) |-> refs[i].name]

\* C14: the prompt "create a model that joins customers with orders", on a
\* manifest without the models it names, is analysed as JOIN_TABLES over
\* customers and orders, in that order, and synthesized into the join skeleton.
C14_JoinScenario ==
  (/\ ppc = "done"
   /\ prompt = "create a model that joins customers with orders"
   /\ manifest = None) =>
    /\ analysis.intent = JOIN_TABLES
    /\ RefNames(analysis.table_references) = <<"customers", "orders">>
    /\ Contains(generated.sql, "left_table as (")
    /\ Contains(generated.sql, "right_table as (")
    /\ Contains(generated.sql, "inner join")
    /\ Contains(generated.sql, "select * from final")

ExplicitJoinTypes == {"left", "right", "full"}

\* the prompt holds the explicit pattern of the join type
ExplicitJoin(t, p) == AnyPatternFound(join_patterns[t], p)

\* what C19 says in every reading: nothing below two references, else one
\* requirement between the first two
JoinRequirementShape(a) ==
  IF Len(a.table_references) < 2 THEN a.join_requirements = <<>>
  ELSE /\ Len(a.join_requirements) = 1
       /\ a.join_requirements[1].left_table = a.table_references[1].name
       /\ a.join_requirements[1].right_table = a.table_references[2].name

\* C19 as stated: the join type is left, right or full whenever the prompt
\* matches that type's explicit pattern, and inner otherwise.
C19_JoinRequirement_EveryExplicitType ==
  ppc = "done" =>
    /\ JoinRequirementShape(analysis)
    /\ Len(analysis.table_references) >= 2 =>
         /\ \A t \in ExplicitJoinTypes :
              ExplicitJoin(t, Lower(prompt)) => analysis.join_requirements[1].join_type = t
         /\ (\A t \in ExplicitJoinTypes : ~ExplicitJoin(t, Lower(prompt)))
              => analysis.join_requirements[1].join_type = "inner"

\* C19, amended: when several explicit patterns match, the last of left,
\* right, full decides; with one explicit match the type is that one (also
\* when the bare join pattern matches), and inner with none.
C19_JoinRequirement ==
  ppc = "done" =>
    /\ JoinRequirementShape(analysis)
    /\ Len(analysis.table_references) >= 2 =>
         analysis.join_requirements[1].join_type =
           IF ExplicitJoin("full", Lower(prompt)) THEN "full"
           ELSE IF ExplicitJoin("right", Lower(prompt)) THEN "right"
           ELSE IF ExplicitJoin("left", Lower(prompt)) THEN "left"
           ELSE "inner"

\* a prompt with two references where the bare join pattern and the explicit
\* left pattern both match was analysed as a left join
C19_Witness ==
  /\ ppc = "done"
  /\ Len(analysis.table_references) >= 2
  /\ SearchI(join_patterns["inner"][2], prompt)
  /\ ExplicitJoin("left", Lower(prompt))
  /\ ~ExplicitJoin("right", Lower(prompt))
  /\ analysis.join_requirements[1].join_type = "left"

-----------------------------------------------------------------------------
(* Searching the models of a manifest: search_models with a text query and  *)
(* the filters the endpoints build (GET /models, GET /search/models).       *)

MaxModels == 2

SearchNodes ==
  { Described(Node("model.p.stg_customers", "stg_customers", "model",
                   "models/staging/stg_customers.sql", "view", <<>>),
              "Staging customer orders", <<"staging">>),
    Described(Node("model.p.customer_metrics", "customer_metrics", "model",
                   "models/marts/customer_metrics.sql", "table", <<>>),
              "Customer analytics metrics", <<"mart">>),
    Described(Node("model.p.dim_products", "dim_products", "model",
                   "models/marts/dim_products.sql", "table", <<>>),
              "", <<"Core", "finance">>),
    Node("model.p.int_payments", "int_payments", "model", "models/int_payments.sql", "view", <<>>),
    Node("model.p.fct_orders", "fct_orders", "model", "", "table", <<>>),
    Described(Node("test.p.core_customer_check", "core_customer_check", "test",
                   "models/staging/schema.yml", "view", <<>>),
              "core customer check", <<"core">>) }

\* manifests of up to MaxModels distinct nodes, in any order
SearchManifests ==
  { [nodes |-> q] : q \in { r \in SeqsUpTo(SearchNodes, MaxModels) :
                             \A i, j \in 1..Len(r) : i # j => r[i] # r[j] } }

SearchQueries == { "", "customer", "CORE", "staging", "marts" }

SearchFilters ==
  {None} \cup
  ({ Filters(materialization, tags, layer) :
       materialization \in {"", "table"},
       tags \in {<<>>, <<"core">>, <<"mart", "finance">>},
       layer \in {"", "staging", "intermediate", "marts", "raw", "models"} }
   \ {Filters("", <<>>, "")})

InitSearch ==
  /\ manifest \in SearchManifests
  /\ disk = OnDisk(manifest)
  /\ ServiceIdle
  /\ PromptIdle
  /\ OthersIdle
  /\ SynthIdle

\* a search leaves the service as it was, so one search per behaviour covers all
SearchModels ==
  /\ reply = None
  /\ \E query \in SearchQueries, filters \in SearchFilters :
       reply' = Reply("search_models", [query |-> query, filters |-> filters],
                      search_models(manifest, query, filters))
  /\ UNCHANGED <<disk, manifest, loadedFrom, reloaded, nreloads>>
  /\ UNCHANGED <<pvars, yvars>>
  /\ UNCHANGED ovars

\* what a handler body ends with: a returned body or a raised HTTPException
Return(body) == [raised |-> FALSE, status |-> 200, detail |-> "", body |-> body]
Raise(status, detail) == [raised |-> TRUE, status |-> status, detail |-> detail, body |-> None]

\* str(e) of an HTTPException: Starlette renders "status: detail", its
\* older releases the empty string
StrOfException(e) == {ToString(e.status) \o ": " \o e.detail, ""}

\* except Exception as e: raise HTTPException(status_code=500, detail=str(e))
CatchAll(outcome) ==
  IF outcome.raised THEN {Raise(500, d) : d \in StrOfException(outcome)} ELSE {outcome}

\* except HTTPException: raise, before except Exception
ReraiseHTTP(outcome) == {outcome}

\* the response the client gets, with the status the handler body raised
Response(route, outcome, answer) ==
  [route |-> route, raised |-> IF outcome.raised THEN outcome.status ELSE 0,
   status |-> answer.status, detail |-> answer.detail, body |-> answer.body]

\* [tag.strip() for tag in tags.split(",")]
RECURSIVE SplitTags(_, _)
SplitTags(tags, start) ==
  LET commas == {i \in start..Len(tags) : Char(tags, i) = ","}
  IN IF commas = {} THEN <<Strip(SubSeq(tags, start, Len(tags)))>>
     ELSE <<Strip(SubSeq(tags, start, Min(commas) - 1))>> \o SplitTags(tags, Min(commas) + 1)

\* models[a:b] for a and b that are not negative
Slice(models, a, b) ==
  LET last == IF b < Len(models) THEN b ELSE Len(models)
  IN IF a >= last THEN <<>> ELSE SubSeq(models, a + 1, last)

\* models[offset:offset + limit] if limit else models[offset:]
Page(models, offset, limit) ==
  IF limit # 0 THEN Slice(models, offset, offset + limit) ELSE Slice(models, offset, Len(models))

SearchResult(model) ==
  [name |-> model.name, path |-> model.path, description |-> model.description,
   materialization |-> model.materialization, tags |-> model.tags,
   dependency_count |-> Len(model.depends_on) + Len(model.referenced_by)]

\* the query parameters of GET /search/models; "" is a parameter left out
SearchParams ==
  [q : {"", "customer"}, materialization : {"", "table"}, layer : {"", "marts"},
   tags : {"", "core, finance"}, limit : 0..2, offset : 0..2]

\* GET /search/models
search_models_route ==
  /\ reply = None
  /\ \E params \in SearchParams :
       LET filters == Filters(params.materialization,
                              IF params.tags # "" THEN SplitTags(params.tags, 1) ELSE <<>>,
                              params.layer)
           passed == IF filters = Filters("", <<>>, "") THEN None ELSE filters
           models == search_models(manifest, params.q, passed)
           paginated_models == Page(models, params.offset, params.limit)
           outcome == Return([results |-> [i \in 1..Len(paginated_models) |->
                                             SearchResult(paginated_models[i])],
                              query |-> params.q, total_count |-> Len(models),
                              offset |-> params.offset, limit |-> params.limit])
       IN /\ reply' = Reply("search_models", [query |-> params.q, filters |-> passed], models)
          /\ \E answer \in CatchAll(outcome) :
               response' = Response("/search/models", outcome, answer)
  /\ UNCHANGED <<disk, manifest, loadedFrom, reloaded, nreloads>>
  /\ UNCHANGED <<pvars, yvars>>
  /\ UNCHANGED <<cvars, dvars, fvars, rvars, services, posted>>

NextSearch ==
  \/ SearchModels
  \/ search_models_route

SpecSearch == InitSearch /\ [][NextSearch]_vars

Searched == reply # None /\ reply.op = "search_models"

\* result is the elements of all that satisfy the test, in the order of all
Selected(all, keep) == { i \in 1..Len(all) : keep[i] }

IsOrderedSelection(result, all, keep) ==
  /\ Len(result) = Cardinality(Selected(all, keep))
  /\ \A k \in 1..Len(result) :
       \E i \in Selected(all, keep) :
         /\ Cardinality({ j \in Selected(all, keep) : j <= i }) = k
         /\ result[k] = all[i]

\* the lookup substrings of the four named layers
LayerSubstrings ==
  [staging |-> {"staging", "stg_"},
   intermediate |-> {"intermediate", "int_"},
   marts |-> {"marts", "mart_", "dim_", "fct_"},
   raw |-> {"raw", "source"}]

ContainsIgnoringCase(text, q) == Contains(Lower(text), Lower(q))

TextMatch(model, q) ==
  \/ ContainsIgnoringCase(model.name, q)
  \/ ContainsIgnoringCase(model.description, q)
  \/ \E tag \in SeqRange(model.tags) : ContainsIgnoringCase(tag, q)

Wanted(model, query, filters) ==
  /\ query = "" \/ TextMatch(model, query)
  /\ \/ filters = None
     \/ /\ filters.materialization = "" \/ model.materialization = filters.materialization
        /\ filters.tags = <<>> \/ SeqRange(filters.tags) \cap SeqRange(model.tags) # {}
        /\ \/ filters.layer = ""
           \/ \E sub \in LayerSubstrings[filters.layer] : Contains(model.path, sub)

-----------------------------------------------------------------------------
(* A reload running beside a reader, one read or write of self.manifest per *)
(* step.  _load_manifest assigns what json.load returned and then logs      *)
(* len(self.manifest.get('nodes', {})); its except branch assigns None.     *)
(* Every reader tests `if not self.manifest` and then takes                 *)
(* self.manifest.get("nodes", {}); from there on it works on that value.    *)

\* what json.load returns for a file holding a JSON array such as [1]
NonDictValue == [nondict |-> TRUE]

\* bool(self.manifest): the manifests of the model have the key nodes
Truthy(m) == m # None

\* self.manifest.get exists
HasGet(m) == m # None /\ m # NonDictValue

ReaderCalls ==
  { [op |-> "get_all_models", arg |-> ""],
    [op |-> "get_model_by_name", arg |-> "orders"],
    [op |-> "get_model_dependencies", arg |-> "orders"],
    [op |-> "search_models", arg |-> "orders"] }

\* what the reader returns when both reads see the manifest m
RunReader(call, m) ==
  CASE call.op = "get_all_models" -> get_all_models(m)
    [] call.op = "get_model_by_name" -> get_model_by_name(m, call.arg)
    [] call.op = "get_model_dependencies" -> get_model_dependencies(m, call.arg)
    [] call.op = "search_models" -> search_models(m, call.arg, None)

Returned(value) == [raised |-> "", value |-> value]
Raised(error) == [raised |-> error, value |-> None]

\* the service was built from one file; the file it will reload is another
InitConcurrent ==
  /\ loadedFrom \in DiskStates
  /\ manifest = _load_manifest(loadedFrom, None)
  /\ disk \in DiskStates
  /\ reloaded = "never"
  /\ nreloads = 0
  /\ reply = None
  /\ lpc = "idle"
  /\ rpc = "idle"
  /\ rcall = None
  /\ before = manifest
  /\ PromptIdle /\ SynthIdle /\ DbtIdle /\ FilesIdle /\ ServerIdle /\ RunIdle

\* _load_manifest up to the assignment of json.load's value
LoadAssigns ==
  /\ lpc = "idle"
  /\ CASE disk.kind = "missing" -> manifest' = manifest /\ lpc' = "return"
       [] disk.kind = "invalid" -> manifest' = None /\ lpc' = "return"
       [] disk.kind = "nondict" -> manifest' = NonDictValue /\ lpc' = "log"
       [] disk.kind = "ok" -> manifest' = disk.content /\ lpc' = "log"
  /\ UNCHANGED <<disk, loadedFrom, reloaded, nreloads, reply, rpc, rcall, before>>
  /\ UNCHANGED <<pvars, yvars, dvars, fvars, hvars, rvars>>

\* the logging line, and the except branch when .get does not exist
LoadLogs ==
  /\ lpc = "log"
  /\ manifest' = IF HasGet(manifest) THEN manifest ELSE None
  /\ lpc' = "return"
  /\ UNCHANGED <<disk, loadedFrom, reloaded, nreloads, reply, rpc, rcall, before>>
  /\ UNCHANGED <<pvars, yvars, dvars, fvars, hvars, rvars>>

\* reload_manifest: return self.manifest is not None
ReloadReturns ==
  /\ lpc = "return"
  /\ reloaded' = ReloadReturn(manifest)
  /\ loadedFrom' = disk
  /\ nreloads' = nreloads + 1
  /\ lpc' = "done"
  /\ UNCHANGED <<disk, manifest, reply, rpc, rcall, before>>
  /\ UNCHANGED <<pvars, yvars, dvars, fvars, hvars, rvars>>

\* a reader's `if not self.manifest`
ReaderChecks ==
  /\ rpc = "idle"
  /\ \E call \in ReaderCalls :
       IF Truthy(manifest)
         THEN rpc' = "checked" /\ rcall' = call /\ reply' = reply
         ELSE /\ reply' = Reply(call.op, call.arg, Returned(RunReader(call, None)))
              /\ UNCHANGED <<rpc, rcall>>
  /\ UNCHANGED <<disk, manifest, loadedFrom, reloaded, nreloads, lpc, before>>
  /\ UNCHANGED <<pvars, yvars, dvars, fvars, hvars, rvars>>

\* a reader's self.manifest.get("nodes", {}) and the rest of the call
ReaderReads ==
  /\ rpc = "checked"
  /\ reply' = Reply(rcall.op, rcall.arg,
                    IF HasGet(manifest) THEN Returned(RunReader(rcall, manifest))
                    ELSE Raised("AttributeError"))
  /\ rpc' = "idle"
  /\ rcall' = None
  /\ UNCHANGED <<disk, manifest, loadedFrom, reloaded, nreloads, lpc, before>>
  /\ UNCHANGED <<pvars, yvars, dvars, fvars, hvars, rvars>>

NextConcurrent ==
  \/ LoadAssigns
  \/ LoadLogs
  \/ ReloadReturns
  \/ ReaderChecks
  \/ ReaderReads

SpecConcurrent == InitConcurrent /\ [][NextConcurrent]_vars

-----------------------------------------------------------------------------
(* backend/compilation_service.py: dbt compile and dbt run as subprocesses; *)
(* a failed run is reported through the text dbt wrote to stderr.           *)

\* DBTCompilationService._generate_error_suggestion; "" stands for None
_generate_error_suggestion(error_text) ==
  LET error_lower == Lower(error_text)
  IN IF Contains(error_lower, "relation") /\ Contains(error_lower, "does not exist")
       THEN "Check that referenced tables/models exist and are spelled correctly"
     ELSE IF Contains(error_lower, "column") /\ Contains(error_lower, "does not exist")
       THEN "Verify column names in your SELECT statement"
     ELSE IF Contains(error_lower, "syntax error")
       THEN "Check SQL syntax - missing commas, parentheses, or keywords"
     ELSE IF Contains(error_lower, "circular dependency")
       THEN "Remove circular references between models"
     ELSE IF Contains(error_lower, "compilation error") /\ Contains(error_lower, "macro")
       THEN "Check macro usage and ensure required macros are available"
     ELSE IF Contains(error_lower, "jinja")
       THEN "Check Jinja template syntax in your model"
     ELSE ""

\* DBTExecutionService._generate_execution_suggestion; "" stands for None
_generate_execution_suggestion(error_text) ==
  LET error_lower == Lower(error_text)
  IN IF Contains(error_lower, "permission denied")
       THEN "Check database permissions for the target schema"
     ELSE IF Contains(error_lower, "table already exists")
       THEN "Consider using incremental materialization or dropping the existing table"
     ELSE IF Contains(error_lower, "out of memory")
       THEN "Try processing smaller batches or optimizing the query"
     ELSE IF Contains(error_lower, "timeout")
       THEN "Query may be too complex - consider breaking it into smaller steps"
     ELSE IF Contains(error_lower, "connection") /\ Contains(error_lower, "failed")
       THEN "Check database connection settings and network connectivity"
     ELSE ""

SuggestionFor(service, error_text) ==
  IF service = "compilation" THEN _generate_error_suggestion(error_text)
  ELSE _generate_execution_suggestion(error_text)

Parsed(errors, suggestions) == [errors |-> errors, suggestions |-> suggestions]

\* closes the block of lines gathered so far: one error, and its suggestion if any
CloseBlock(service, current_error, acc) ==
  IF current_error = <<>> THEN acc
  ELSE LET error_text == Join(current_error, " ")
           suggestion == SuggestionFor(service, error_text)
       IN Parsed(Append(acc.errors, error_text),
                 IF suggestion # "" THEN Append(acc.suggestions, suggestion)
                 ELSE acc.suggestions)

\* the loop over the lines of stderr, shared by both services
RECURSIVE ParseBlocks(_, _, _, _, _)
ParseBlocks(service, lines, i, current_error, acc) ==
  IF i > Len(lines) THEN CloseBlock(service, current_error, acc)
  ELSE LET line == Strip(lines[i])
       IN IF line = ""
            THEN ParseBlocks(service, lines, i + 1, <<>>, CloseBlock(service, current_error, acc))
          ELSE IF StartsWith(line, "[") \/ StartsWith(line, "Running with dbt")
            THEN ParseBlocks(service, lines, i + 1, current_error, acc)
          ELSE ParseBlocks(service, lines, i + 1, Append(current_error, line), acc)

_parse_compilation_errors(text) ==
  ParseBlocks("compilation", SplitLines(text), 1, <<>>, Parsed(<<>>, <<>>))

_parse_execution_errors(text) ==
  ParseBlocks("execution", SplitLines(text), 1, <<>>, Parsed(<<>>, <<>>))

CompilationResult(success, model_name, errors, suggestions) ==
  [success |-> success, model_name |-> model_name, compiled_sql |-> None,
   errors |-> errors, warnings |-> <<>>, suggestions |-> suggestions]

\* an ExecutionResult has no suggestions
ExecutionResult(success, model_name, errors) ==
  [success |-> success, model_name |-> model_name, rows_affected |-> None,
   errors |-> errors, warnings |-> <<>>, preview_data |-> None]

\* how subprocess.run ended: return code 0, another return code, or no dbt to run
ProcessEnds == {"zero", "nonzero", "oserror"}

OSErrorText == "[Errno 2] No such file or directory: 'dbt'"

compile_model(model_name, ended, text) ==
  CASE ended = "zero" -> CompilationResult(TRUE, model_name, <<>>, <<>>)
    [] ended = "nonzero" ->
         LET parsed == _parse_compilation_errors(text)
         IN CompilationResult(FALSE, model_name, parsed.errors, parsed.suggestions)
    [] ended = "oserror" ->
         CompilationResult(FALSE, model_name, <<"Compilation failed: " \o OSErrorText>>,
                           <<"Check that dbt is installed and the model exists">>)

\* run_model and run_model_with_dependencies differ in the selector handed to dbt
run_model(model_name, ended, text) ==
  CASE ended = "zero" -> ExecutionResult(TRUE, model_name, <<>>)
    [] ended = "nonzero" -> ExecutionResult(FALSE, model_name, _parse_execution_errors(text).errors)
    [] ended = "oserror" -> ExecutionResult(FALSE, model_name, <<"Execution failed: " \o OSErrorText>>)

MaxErrLines == 3

StderrLines ==
  { "", "  ", "[0m12:00:01  Running with dbt=1.7.4", "Runtime Error in model orders",
    "  Relation raw.orders does not exist", "permission denied for schema marts" }

InitDbt ==
  /\ manifest = None
  /\ disk = Missing
  /\ ServiceIdle
  /\ PromptIdle
  /\ SynthIdle
  /\ OthersIdle

\* dbt writes one more line to stderr
WriteStderr ==
  /\ dbtResult = None
  /\ nerr < MaxErrLines
  /\ \E line \in StderrLines :
       stderr' = IF nerr = 0 THEN line ELSE stderr \o "\n" \o line
  /\ nerr' = nerr + 1
  /\ UNCHANGED <<dbtResult, svars, pvars, yvars, cvars, fvars, hvars, rvars>>

\* POST /compile
CompileModel ==
  /\ dbtResult = None
  /\ \E ended \in ProcessEnds : dbtResult' = compile_model("orders", ended, stderr)
  /\ UNCHANGED <<stderr, nerr, svars, pvars, yvars, cvars, fvars, hvars, rvars>>

\* POST /run, with or without dependencies
RunModel ==
  /\ dbtResult = None
  /\ \E ended \in ProcessEnds : dbtResult' = run_model("orders", ended, stderr)
  /\ UNCHANGED <<stderr, nerr, svars, pvars, yvars, cvars, fvars, hvars, rvars>>

NextDbt ==
  \/ WriteStderr
  \/ CompileModel
  \/ RunModel

SpecDbt == InitDbt /\ [][NextDbt]_vars

\* the suggestions a result carries
SuggestionsOf(result) ==
  IF "suggestions" \in DOMAIN result THEN result.suggestions ELSE <<>>

\* C17: a compile or run that failed and reports an error carries a suggestion.
C17_FailureCarriesSuggestion ==
  (dbtResult # None /\ ~dbtResult.success /\ dbtResult.errors # <<>>) =>
    SuggestionsOf(dbtResult) # <<>>

-----------------------------------------------------------------------------
(* backend/model_generator.py: ModelFileManager writes a model file and the *)
(* entry of the model in the schema.yml of its directory, and deletes both. *)

\* the part of a SQLGenerationResult the file manager's schema code reads;
\* a description of "" stands for None
SqlResult(model_name, description, materialization) ==
  [model_name |-> model_name, description |-> description, materialization |-> materialization,
   sql |-> "select 1", reasoning |-> ""]

FileAt(layer, stem) == [layer |-> layer, stem |-> stem]

_determine_model_path(model_name) ==
  IF StartsWith(model_name, "stg_") \/ StartsWith(model_name, "staging_")
    THEN FileAt("staging", model_name)
  ELSE IF StartsWith(model_name, "int_") \/ StartsWith(model_name, "intermediate_")
    THEN FileAt("intermediate", model_name)
  ELSE IF \E prefix \in {"dim_", "fct_", "mart_"} : StartsWith(model_name, prefix)
    THEN FileAt("marts", model_name)
  ELSE FileAt("intermediate", model_name)

\* a conflict check that finds nothing
_check_conflicts_Overwrite(present, model_path) == FALSE

\* whether _check_conflicts returns a non-empty list
_check_conflicts(present, model_path) ==
  \/ model_path \in present
  \/ \E existing_file \in present :
       /\ existing_file.layer = model_path.layer
       /\ Lower(existing_file.stem) = Lower(model_path.stem)
       /\ existing_file # model_path

_should_create_schema(sql_result) ==
  sql_result.description # "" \/ sql_result.materialization # "view"

\* an entry of the models list; "" stands for a key the entry does not have
ModelEntry(name, description, materialized) ==
  [name |-> name, description |-> description, materialized |-> materialized]

\* dict.update: the keys of the new entry replace, the other keys stay
UpdateEntry(existing_model, model_entry) ==
  ModelEntry(model_entry.name,
             IF model_entry.description # "" THEN model_entry.description
             ELSE existing_model.description,
             IF model_entry.materialized # "" THEN model_entry.materialized
             ELSE existing_model.materialized)

_add_model_to_schema(models, sql_result) ==
  LET model_entry == ModelEntry(sql_result.model_name, sql_result.description,
                                IF sql_result.materialization # "view"
                                  THEN sql_result.materialization ELSE "")
      found == {i \in 1..Len(models) : models[i].name = sql_result.model_name}
  IN IF found # {}
       THEN [models EXCEPT ![Min(found)] = UpdateEntry(@, model_entry)]
       ELSE Append(models, model_entry)

\* _load_or_create_schema, _add_model_to_schema and the dump: the schema.yml
\* after the call; a missing file is loaded as an empty models list
_create_or_update_schema(schema, sql_result) ==
  SchemaFile(_add_model_to_schema(schema.models, sql_result))

\* the schema.yml after _remove_from_schema; an emptied schema.yml is deleted
_remove_from_schema(schema, model_name) ==
  IF ~schema.exists THEN schema
  ELSE LET models == schema.models
           kept == {i \in 1..Len(models) : models[i].name # model_name}
           rest == [k \in 1..Cardinality(kept) |->
                      models[CHOOSE i \in kept : Cardinality({j \in kept : j <= i}) = k]]
       IN IF rest # <<>> THEN SchemaFile(rest) ELSE NoSchema

\* the directories _find_model_file searches, in its order; "" is models/
SearchDirs == <<"", "staging", "intermediate", "marts">>

\* the file _find_model_file returns, as a set: empty when it returns None
_find_model_file(present, model_name) ==
  LET hits == {k \in 1..Len(SearchDirs) : FileAt(SearchDirs[k], model_name) \in present}
  IN IF hits = {} THEN {} ELSE {FileAt(SearchDirs[Min(hits)], model_name)}

GeneratedMark == "Generated by dbt MCP Hackathon Project"

\* the text _write_model_file writes
_write_model_file(sql_result) ==
  Join(<<"-- Model: " \o sql_result.model_name, "-- " \o GeneratedMark>>
         \o (IF sql_result.description # ""
               THEN <<"-- Description: " \o sql_result.description>> ELSE <<>>)
         \o (IF sql_result.reasoning # ""
               THEN <<"-- Reasoning: " \o sql_result.reasoning>> ELSE <<>>)
         \o <<"", sql_result.sql>>, "\n")

\* the files list_generated_models reports
list_generated_models(present, texts) ==
  {f \in present : f.layer \in Layers /\ Contains(texts[f], GeneratedMark)}

\* the text of a model a project author wrote
HandWritten == "select * from raw_orders"

\* the model files the project holds before the manager writes any: none, or
\* a staging model and a model directly under models/
Projects == { {}, {FileAt("staging", "stg_orders"), FileAt("", "int_orders")} }

MaxWrites == 2

WriteNames == {"stg_orders", "int_orders", "INT_ORDERS"}

WriteResults ==
  { SqlResult(model_name, description, materialization) :
      model_name \in WriteNames,
      description \in {"", "Orders by day"},
      materialization \in {"view", "table"} }

Written(name) == {w \in lastWritten : w.result.model_name = name}

WritesOf(name) == IF Written(name) = {} THEN 0 ELSE (CHOOSE w \in Written(name) : TRUE).writes

InitFiles ==
  /\ manifest = None
  /\ disk = Missing
  /\ ServiceIdle
  /\ PromptIdle
  /\ SynthIdle
  /\ ThreadsIdle /\ DbtIdle /\ ServerIdle /\ RunIdle
  /\ files \in Projects
  /\ contents = [f \in files |-> HandWritten]
  /\ schemas = [layer \in Layers |-> NoSchema]
  /\ lastWritten = {}
  /\ fileResult = None

create_model_from_sql_result ==
  \E sql_result \in WriteResults :
    LET model_path == _determine_model_path(sql_result.model_name)
    IN /\ WritesOf(sql_result.model_name) < MaxWrites
       /\ IF _check_conflicts(files, model_path)
            THEN /\ fileResult' = [op |-> "create", model_name |-> sql_result.model_name,
                                   success |-> FALSE]
                 /\ UNCHANGED <<files, contents, schemas, lastWritten>>
            ELSE /\ files' = files \cup {model_path}
                 /\ contents' = [f \in files' |-> IF f = model_path
                                                    THEN _write_model_file(sql_result)
                                                    ELSE contents[f]]
                 /\ schemas' = IF _should_create_schema(sql_result)
                                 THEN [schemas EXCEPT ![model_path.layer] =
                                         _create_or_update_schema(@, sql_result)]
                                 ELSE schemas
                 /\ lastWritten' = (lastWritten \ Written(sql_result.model_name)) \cup
                      {[result |-> sql_result, deleted |-> FALSE,
                        writes |-> WritesOf(sql_result.model_name) + 1]}
                 /\ fileResult' = [op |-> "create", model_name |-> sql_result.model_name,
                                   success |-> TRUE]
       /\ UNCHANGED <<svars, pvars, yvars, cvars, dvars, hvars, rvars>>

delete_model ==
  \E model_name \in WriteNames :
    LET found == _find_model_file(files, model_name)
    IN /\ IF found = {}
            THEN /\ fileResult' = [op |-> "delete", model_name |-> model_name, success |-> FALSE]
                 /\ UNCHANGED <<files, contents, schemas, lastWritten>>
            ELSE LET model_path == CHOOSE f \in found : TRUE
                 IN /\ files' = files \ {model_path}
                    /\ contents' = [f \in files' |-> contents[f]]
                    /\ schemas' = IF model_path.layer \in Layers
                                     THEN [schemas EXCEPT ![model_path.layer] =
                                             _remove_from_schema(@, model_name)]
                                     ELSE schemas
                    /\ lastWritten' = {IF /\ w.result.model_name = model_name
                                          /\ model_path = _determine_model_path(model_name)
                                         THEN [w EXCEPT !.deleted = TRUE] ELSE w : w \in lastWritten}
                    /\ fileResult' = [op |-> "delete", model_name |-> model_name, success |-> TRUE]
       /\ UNCHANGED <<svars, pvars, yvars, cvars, dvars, hvars, rvars>>

NextFiles ==
  \/ create_model_from_sql_result
  \/ delete_model

SpecFiles == InitFiles /\ [][NextFiles]_vars

\* the entries of every schema.yml
AllEntries ==
  UNION { SeqRange(schemas[layer].models) : layer \in Layers }

-----------------------------------------------------------------------------
(* The select list of the aggregate and the transform skeletons. *)

IsCommentLine(line) == StartsWith(Strip(line), "--")

\* the lines of the skeleton before its line `  from source_data`
SelectListLines(lines) ==
  LET froms == {i \in 1..Len(lines) : lines[i] = "  from source_data"}
  IN SubSeq(lines, 1, Min(froms) - 1)

\* the last of these lines that is not a comment
LastSelectItem(lines) ==
  LET solid == {i \in 1..Len(lines) : ~IsCommentLine(lines[i])}
  IN lines[Max(solid)]

HasSelectList(a) ==
  a.intent \in {AGGREGATE_DATA, TRANSFORM_DATA} /\ a.table_references # <<>>

\* C21: in the aggregate and the transform skeletons the last item of the
\* select list before `from source_data`, comment lines aside, does not end
\* with a comma.
C21_SelectListCommaStripped ==
  (generated # None /\ HasSelectList(request)) =>
    ~EndsWith(Strip(LastSelectItem(SelectListLines(SkeletonLines(request)))), ",")

-----------------------------------------------------------------------------
(* The trailing-comma warnings of the two validators on the same text. *)

CommaWarnings(r) ==
  {r.warnings[k] : k \in {j \in 1..Len(r.warnings) :
                            StartsWith(r.warnings[j], "Trailing comma on line ")}}

\* the lines that end with a comma before a line that opens a clause
CommaLines(text) ==
  LET lines == SplitLines(text)
  IN {i \in 1..Len(lines) :
        /\ EndsWith(Strip(lines[i]), ",")
        /\ \E w \in {"from", "where", "group", "order", "having", ")"} :
             StartsWith(NextSolidLine(lines, i + 1), w)}

\* C22: each validator warns of a trailing comma on exactly the lines whose
\* trimmed text ends with a comma and whose next non-empty line starts, in
\* any case, with from, where, group, order, having or `)`; so both emit the
\* same trailing-comma warnings for the same text.
C22_SameCommaWarnings ==
  \A site \in Sites :
    validation[site] # None =>
      CommaWarnings(validation[site].result) =
        {TrailingCommaMessage(i) : i \in CommaLines(validation[site].input)}

-----------------------------------------------------------------------------
(* The prompt processor over a project whose model names are written in    *)
(* lower case only, as dbt projects usually are, while prompts are typed   *)
(* in any case.                                                            *)

LowerCaseManifests ==
  { [nodes |-> << ModelNode("model.p.stg_orders", "stg_orders", <<>>),
                  ModelNode("model.p.orders", "orders", <<"model.p.stg_orders">>) >>] }

InitRefs ==
  /\ manifest \in LowerCaseManifests
  /\ disk = OnDisk(manifest)
  /\ ServiceIdle
  /\ PromptIdle
  /\ OthersIdle
  /\ SynthIdle

SpecRefs == InitRefs /\ [][NextPrompt]_vars

\* the manifest's models whose name the prompt holds, in any case
NamedInPrompt(p, m) ==
  {model.name : model \in {x \in SeqRange(get_all_models(m)) :
                             Contains(Lower(p), Lower(x.name))}}

\* C23: every manifest model whose name occurs in the prompt, compared in
\* lower case, has a table reference of that name (in any case) with
\* is_model true; and a reference has confidence 0.8 or 0.9 exactly when
\* is_model is true and 0.6 exactly when it is false.
C23_NamedModelsReferenced ==
  ppc = "done" =>
    /\ \A name \in NamedInPrompt(prompt, manifest) :
         \E i \in 1..Len(analysis.table_references) :
           /\ Lower(analysis.table_references[i].name) = Lower(name)
           /\ analysis.table_references[i].is_model = TRUE
    /\ \A i \in 1..Len(analysis.table_references) :
         /\ analysis.table_references[i].confidence \in {8, 9}
              <=> analysis.table_references[i].is_model = TRUE
         /\ analysis.table_references[i].confidence = 6
              <=> analysis.table_references[i].is_model = FALSE

-----------------------------------------------------------------------------
(* backend/mcp_server.py: the server as a state machine.  MCPServer is     *)
(* constructed once; dbt rewrites the manifest; clients post to /refresh,  *)
(* /generate, /generate-chatgpt, /generate-pattern and /validate.          *)

\* the services before _initialize_ai_services: the attribute
\* chatgpt_service does not exist yet
NoServices ==
  [prompt_processor |-> FALSE, ai_service |-> FALSE, model_generator |-> FALSE,
   chatgpt_service |-> "unset", compilation_service |-> FALSE]

\* ChatGPTService.__init__ and is_available: the client exists with a key
ChatGPTService(api_key) == IF api_key THEN "available" ELSE "unavailable"

_initialize_ai_services(held, m, api_key) ==
  IF Truthy(m)
    THEN [prompt_processor |-> TRUE, ai_service |-> TRUE, model_generator |-> TRUE,
          chatgpt_service |-> ChatGPTService(api_key), compilation_service |-> TRUE]
    ELSE [held EXCEPT !.compilation_service = TRUE]

\* hasattr(self, 'chatgpt_service') and self.chatgpt_service.is_available()
ChatGPTUsable(sv) == sv.chatgpt_service = "available"

\* a field of the body: left out by the client, or given with a value
Omitted == [given |-> FALSE, value |-> ""]
Given(v) == [given |-> TRUE, value |-> v]

\* ModelGenerationRequest: the body with the defaults of the class; None is ""
ModelGenerationRequest(body) ==
  [prompt |-> body.prompt,
   output_name |-> IF body.output_name.given THEN body.output_name.value ELSE "",
   materialization |-> IF body.materialization.given THEN body.materialization.value ELSE "view",
   description |-> IF body.description.given THEN body.description.value ELSE ""]

\* PromptProcessor._generate_description; None is ""
_generate_description(p, intent, table_refs) ==
  IF intent = CREATE_MODEL
    THEN "Model generated from prompt: " \o SubSeq(p, 1, Min({100, Len(p)})) \o "..."
           \o (IF table_refs # <<>>
                 THEN " using tables: " \o Join(RefNames(table_refs), ", ")
                 ELSE "")
    ELSE ""

\* MCPServer._generate_with_pattern_ai: analysis, overrides, synthesis
PatternGeneration(req, m) ==
  LET Generated(analysis_) ==
        Return(_mock_kiro_ai_generation(
                 Override(analysis_, req.output_name, req.materialization))
               @@ [success |-> TRUE,
                   description |->
                     IF req.description # ""
                       THEN req.description
                       ELSE _generate_description(req.prompt, analysis_.intent,
                                                  analysis_.table_references)])
  IN Generated(analyze_prompt(req.prompt, m))

\* MCPServer._generate_with_chatgpt: what the remote service answers is not
\* the server's to decide
ChatGPTGeneration(req) ==
  { Return([success |-> TRUE, sql |-> "select 1", model_name |-> "chatgpt_model",
            description |-> req.description,
            materialization |-> IF req.materialization # ""
                                  THEN req.materialization ELSE "view",
            confidence |-> 9]),
    Raise(500, "ChatGPT API call failed") }

ServerPrompts ==
  { "create a model from orders as a table",
    "join orders with customers" }

Bodies ==
  { [prompt |-> pr, output_name |-> o, materialization |-> mt, description |-> d] :
      pr \in ServerPrompts,
      o \in {Omitted, Given("requested_name")},
      mt \in {Omitted, Given("incremental")},
      d \in {Omitted, Given("Orders by day")} }

\* PatternGeneration of every body over every manifest the service can hold
GenerationTable ==
  [m \in {None} \cup DiskManifests |->
     [body \in Bodies |-> PatternGeneration(ModelGenerationRequest(body), m)]]

\* a client posts one generation or validation request, after any number of
\* refreshes
FirstRequest == IF response = None THEN TRUE ELSE response.route = "/refresh"

\* the model files of the project the server runs in
ProjectFiles == { ModelFile("staging", "stg_orders", "select id,\nfrom raw_orders") }

\* MCPServer.__init__
InitServer ==
  /\ disk \in DiskStates
  /\ manifest = _load_manifest(disk, None)
  /\ ServiceIdle
  /\ PromptIdle
  /\ SynthIdle
  /\ ThreadsIdle /\ DbtIdle /\ FilesIdle /\ RunIdle
  /\ \E api_key \in BOOLEAN : services = _initialize_ai_services(NoServices, manifest, api_key)
  /\ posted = None
  /\ response = None

\* POST /refresh
refresh_manifest ==
  /\ nreloads < MaxReloads
  /\ manifest' = _load_manifest(disk, manifest)
  /\ reloaded' = ReloadReturn(manifest')
  /\ loadedFrom' = disk
  /\ nreloads' = nreloads + 1
  /\ reply' = IF reloaded' = "True"
                THEN Return([status |-> "success"])
                ELSE Raise(500, "Failed to reload manifest")
  /\ \E answer \in CatchAll(reply') : response' = Response("/refresh", reply', answer)
  /\ UNCHANGED <<disk, services, posted>>
  /\ UNCHANGED <<pvars, yvars, cvars, dvars, fvars, rvars>>

\* POST /generate
generate_sql(body) ==
  /\ FirstRequest
  /\ posted' = body
  /\ reply' \in
       (IF ChatGPTUsable(services)
          THEN ChatGPTGeneration(ModelGenerationRequest(body))
          ELSE IF ~(services.prompt_processor /\ services.ai_service)
            THEN {Raise(500, "AI services not initialized")}
            ELSE {GenerationTable[manifest][body]})
  /\ \E answer \in CatchAll(reply') : response' = Response("/generate", reply', answer)
  /\ UNCHANGED services
  /\ UNCHANGED <<<<disk, manifest, loadedFrom, reloaded, nreloads>>, pvars, yvars, cvars, dvars, fvars, rvars>>

\* POST /generate-chatgpt
generate_sql_chatgpt(body) ==
  /\ FirstRequest
  /\ posted' = body
  /\ reply' \in
       (IF ~ChatGPTUsable(services)
          THEN {Raise(503, "ChatGPT service not available. Please configure OPENAI_API_KEY.")}
          ELSE ChatGPTGeneration(ModelGenerationRequest(body)))
  /\ \E answer \in CatchAll(reply') :
       response' = Response("/generate-chatgpt", reply', answer)
  /\ UNCHANGED services
  /\ UNCHANGED <<<<disk, manifest, loadedFrom, reloaded, nreloads>>, pvars, yvars, cvars, dvars, fvars, rvars>>

\* POST /generate-pattern
generate_sql_pattern(body) ==
  /\ FirstRequest
  /\ posted' = body
  /\ reply' = IF ~(services.prompt_processor /\ services.ai_service)
                THEN Raise(500, "Pattern-based AI services not initialized")
                ELSE GenerationTable[manifest][body]
  /\ \E answer \in CatchAll(reply') :
       response' = Response("/generate-pattern", reply', answer)
  /\ UNCHANGED services
  /\ UNCHANGED <<<<disk, manifest, loadedFrom, reloaded, nreloads>>, pvars, yvars, cvars, dvars, fvars, rvars>>

\* POST /validate
validate_sql(sql, model_name) ==
  /\ FirstRequest
  /\ LET found == {f \in ProjectFiles : f.stem = model_name}
     IN reply' =
          IF ~services.ai_service THEN Raise(500, "AI service not initialized")
          ELSE IF sql # "" THEN Return(validate_generated_sql(sql))
          ELSE IF model_name # "" /\ services.model_generator
            THEN IF found = {}
                   THEN Raise(404, "Model '" \o model_name \o "' not found")
                   ELSE Return(validate_model_file(CHOOSE f \in found : TRUE))
          ELSE Raise(400, "Either 'sql' or 'model_name' must be provided")
  /\ \E answer \in ReraiseHTTP(reply') : response' = Response("/validate", reply', answer)
  /\ UNCHANGED <<services, posted>>
  /\ UNCHANGED <<<<disk, manifest, loadedFrom, reloaded, nreloads>>, pvars, yvars, cvars, dvars, fvars, rvars>>

NextServer ==
  \/ DbtCompile
  \/ RemoveManifest
  \/ CorruptManifest
  \/ refresh_manifest
  \/ \E body \in Bodies : generate_sql(body)
  \/ \E body \in Bodies : generate_sql_chatgpt(body)
  \/ \E body \in Bodies : generate_sql_pattern(body)
  \/ \E sql \in {"", "select id,\nfrom raw_orders"}, model_name \in {"", "stg_orders", "dim_x"} :
       validate_sql(sql, model_name)

SpecServer == InitServer /\ [][NextServer]_vars

-----------------------------------------------------------------------------
(* Properties of the server, checked under SpecServer *)

PatternRoutes == {"/generate-pattern"}

\* analyze_prompt of every prompt over every manifest the service can hold
Analyses ==
  [m \in {None} \cup DiskManifests |-> [p \in ServerPrompts |-> analyze_prompt(p, m)]]

\* C24: on the pattern-based path a request parameter replaces what the
\* prompt analysis found only if the body holds it: without materialization
\* in the body the result has the materialization _extract_materialization
\* read from the prompt, and with it the config block; likewise for
\* output_name and description.
C24_OmittedFieldsKeepAnalysis ==
  (response # None /\ response.route \in PatternRoutes /\ response.status = 200) =>
    LET found == Analyses[manifest][posted.prompt]
    IN /\ posted.materialization = Omitted =>
            /\ response.body.materialization = found.materialization
            /\ Contains(response.body.sql, "materialized=")
                 <=> found.materialization # "view"
       /\ posted.output_name = Omitted =>
            response.body.model_name =
              (IF found.output_name # "" THEN found.output_name
               ELSE _generate_model_name(found))
       /\ posted.description = Omitted =>
            response.body.description =
              _generate_description(posted.prompt, found.intent, found.table_references)

\* C25: POST /generate-chatgpt answers 503 whenever the ChatGPT service is
\* absent or not available; and on every route an HTTPException the handler
\* raises reaches the client with the status it was raised with.
C25_RaisedStatusReachesClient ==
  response # None =>
    /\ (response.route = "/generate-chatgpt" /\ ~ChatGPTUsable(services))
         => response.status = 503
    /\ response.raised # 0 => response.status = response.raised

\* C26: whenever the model service holds a loaded manifest, loaded at startup
\* or by a later POST /refresh, the prompt processor and the pattern-based
\* synthesizer are initialized, so generation does not fail with
\* 'AI services not initialized'.
C26_LoadedManifestMeansServices ==
  Truthy(manifest) => (services.prompt_processor /\ services.ai_service)

-----------------------------------------------------------------------------
(* Properties of the file manager in a project that has models of its own, *)
(* checked under SpecFiles                                                 *)

\* the call of this step: what it was and for which name
Called(op, model_name) ==
  fileResult' # None /\ fileResult'.op = op /\ fileResult'.model_name = model_name

\* C27: create_model_from_sql_result never overwrites: when the target file
\* or a file with the same stem in another case exists in the directory, the
\* call fails and leaves the model files and every schema.yml as they were;
\* so the text first written for a name stays until delete_model of that
\* name, and after that delete_model a create for the name succeeds again.
C27_CreateNeverOverwrites ==
  [][\A model_name \in WriteNames :
       LET model_path == _determine_model_path(model_name)
       IN /\ (Called("create", model_name) /\ _check_conflicts(files, model_path)) =>
               /\ fileResult'.success = FALSE
               /\ UNCHANGED <<files, contents, schemas>>
          /\ Called("create", model_name) =>
               \A f \in files : f \in files' /\ contents'[f] = contents[f]
          /\ (/\ Called("delete", model_name) /\ fileResult'.success = TRUE
              /\ \E w \in Written(model_name) : ~w.deleted) =>
               ~_check_conflicts(files', model_path)]_vars

\* C28: delete_model removes a model file only if the manager generated it,
\* that is, only if list_generated_models reports it (its text carries the
\* mark 'Generated by dbt MCP Hackathon Project'); a model an author of the
\* project wrote is never removed.
C28_DeletesOnlyGenerated ==
  [][\A f \in files : f \notin files' => f \in list_generated_models(files, contents)]_vars

-----------------------------------------------------------------------------
(* Properties of the search route, checked under SpecSearch *)

SearchAnswered == response # None /\ response.route = "/search/models"

\* positions first..last of a list, counted from 0, as far as it reaches
Positions(all, first, last) ==
  [k \in 1..(IF last < Len(all) THEN (IF last < first THEN 0 ELSE last - first + 1)
             ELSE (IF Len(all) <= first THEN 0 ELSE Len(all) - first)) |-> all[first + k]]

\* C29: GET /search/models returns at most limit results, the matches at the
\* positions offset .. offset+limit-1 of the whole match list, in its order,
\* and total_count is the number of matches before pagination, for every
\* limit >= 0 and offset >= 0.
C29_PageWithinLimit ==
  SearchAnswered =>
    LET body == response.body
        matches == [i \in 1..Len(reply.result) |-> SearchResult(reply.result[i])]
    IN /\ Len(body.results) <= body.limit
       /\ body.results = Positions(matches, body.offset, body.offset + body.limit - 1)
       /\ body.total_count = Len(matches)

-----------------------------------------------------------------------------
(* backend/compilation_service.py: DBTCompilationExecutionService.  A      *)
(* combined call starts a dbt process to compile, waits for it to end and  *)
(* decides whether to start a second one to run the model.                 *)

ValidationResult(is_valid, errors, warnings, suggestions) ==
  [is_valid |-> is_valid, errors |-> errors, warnings |-> warnings, suggestions |-> suggestions]

\* the stem of the temporary file validate_sql_syntax compiles
TempModelName == "tmpk3x9_2a"

\* validate_sql_syntax, given how the compilation of the temporary model ended
validate_sql_syntax(compilation_result) ==
  IF compilation_result.success
    THEN ValidationResult(TRUE, <<>>, compilation_result.warnings, <<>>)
    ELSE ValidationResult(FALSE, compilation_result.errors, <<>>,
                          compilation_result.suggestions)

\* a call that goes on to run the model whatever came first
ReturnsEarly_Never(ok) == FALSE

\* if not compilation_result.success / if not validation_result.is_valid:
\* the call returns (result, None)
ReturnsEarly(ok) == ~ok

\* a dbt process the call started, and whether it ended in success
Started(op, cmd, model_name, success) ==
  [op |-> op, cmd |-> cmd, model_name |-> model_name, success |-> success]

\* the tuple a combined call returns
Pair(op, first, execution) == [op |-> op, first |-> first, execution |-> execution]

RunNames == {"orders", "customers"}

InitRun ==
  /\ manifest = None
  /\ disk = Missing
  /\ ServiceIdle
  /\ PromptIdle
  /\ SynthIdle
  /\ OthersIdle

\* compile_and_run_model up to its decision
CompileFirst ==
  /\ inCall = None /\ combined = None
  /\ \E model_name \in RunNames, ended \in ProcessEnds :
       LET compilation_result == compile_model(model_name, ended, stderr)
       IN /\ dbtLog' = Append(dbtLog, Started("compile_and_run_model", "compile", model_name,
                                              compilation_result.success))
          /\ IF ReturnsEarly(compilation_result.success)
               THEN /\ combined' = Pair("compile_and_run_model", compilation_result, None)
                    /\ UNCHANGED inCall
               ELSE /\ inCall' = [op |-> "compile_and_run_model", model_name |-> model_name,
                                  first |-> compilation_result]
                    /\ UNCHANGED combined
  /\ stderr' = ""
  /\ UNCHANGED <<nerr, dbtResult, svars, pvars, yvars, cvars, fvars, hvars>>

\* validate_and_run_model up to its decision, with SQL or ("") without; the
\* temporary file of validate_sql_syntax is written, or writing it fails
ValidateFirst ==
  /\ inCall = None /\ combined = None
  /\ \E model_name \in {"orders"}, sql \in {"", "select 1"}, ended \in ProcessEnds,
        written \in BOOLEAN :
       LET compiled == IF sql # "" THEN TempModelName ELSE model_name
           compilation_result == compile_model(compiled, ended, stderr)
           validation_result ==
             IF sql # "" /\ ~written
               THEN ValidationResult(FALSE, <<"Validation failed: " \o OSErrorText>>, <<>>,
                                     <<"Check SQL syntax and dbt configuration">>)
             ELSE IF sql # "" THEN validate_sql_syntax(compilation_result)
             ELSE ValidationResult(compilation_result.success, compilation_result.errors,
                                   compilation_result.warnings, compilation_result.suggestions)
       IN /\ dbtLog' = IF sql # "" /\ ~written THEN dbtLog
                        ELSE Append(dbtLog, Started("validate_and_run_model", "compile",
                                                    compiled, compilation_result.success))
          /\ IF ReturnsEarly(validation_result.is_valid)
               THEN /\ combined' = Pair("validate_and_run_model", validation_result, None)
                    /\ UNCHANGED inCall
               ELSE /\ inCall' = [op |-> "validate_and_run_model", model_name |-> model_name,
                                  first |-> validation_result]
                    /\ UNCHANGED combined
  /\ stderr' = ""
  /\ UNCHANGED <<nerr, dbtResult, svars, pvars, yvars, cvars, fvars, hvars>>

\* the rest of either call: execution_service.run_model and the return
RunSecond ==
  /\ inCall # None
  /\ \E ended \in ProcessEnds :
       LET execution_result == run_model(inCall.model_name, ended, stderr)
       IN /\ dbtLog' = Append(dbtLog, Started(inCall.op, "run", inCall.model_name,
                                              execution_result.success))
          /\ combined' = Pair(inCall.op, inCall.first, execution_result)
  /\ inCall' = None
  /\ UNCHANGED <<stderr, nerr, dbtResult, svars, pvars, yvars, cvars, fvars, hvars>>

NextRun ==
  \/ WriteStderr
  \/ CompileFirst
  \/ ValidateFirst
  \/ RunSecond

SpecRun == InitRun /\ [][NextRun]_vars

\* whether the first half of a pair allows the run
Passed(first) == IF "is_valid" \in DOMAIN first THEN first.is_valid ELSE first.success

RunsStarted == {i \in 1..Len(dbtLog) : dbtLog[i].cmd = "run"}

\* C30: compile_and_run_model starts dbt run only after compile_model has
\* returned success for the same model; when the compilation fails no run is
\* started and the execution result returned is None; and
\* validate_and_run_model starts no run after a validation that is not valid.
C30_RunsOnlyAfterSuccess ==
  /\ \A i \in RunsStarted :
       /\ i > 1
       /\ dbtLog[i - 1].cmd = "compile" /\ dbtLog[i - 1].success = TRUE
       /\ dbtLog[i].op = "compile_and_run_model" =>
            dbtLog[i - 1].model_name = dbtLog[i].model_name
  /\ combined # None =>
       /\ ~Passed(combined.first) => (combined.execution = None /\ RunsStarted = {})
       /\ combined.execution # None => RunsStarted # {}

\* a compile-and-run whose compilation failed with an error dbt reported
C30_Witness ==
  /\ combined # None
  /\ combined.op = "compile_and_run_model"
  /\ combined.first.success = FALSE
  /\ combined.first.errors # <<>>
  /\ combined.execution = None
  /\ Len(dbtLog) = 1

====
